---- MODULE Spec2Model ----
(***************************************************************************)
(* Model of the field-vue backend's detection-result aggregation pipeline: *)
(* the background analysis task analyzeImagesForRoom (lib/analysis), the   *)
(* upload handlers that start it (POST /jobs/create-with-rooms and         *)
(* POST /jobs/:id/add-room), the room-image deletion handler and the       *)
(* per-image measurement edit of PATCH /jobs/:id/details, over the rooms   *)
(* and room_images tables.                                                 *)
(*                                                                         *)
(* Strings are sequences of one-character strings, JS numbers are          *)
(* integers, a JS object used as a map is a sequence of [key, val] entries *)
(* in insertion order.  A JSON value is Null (null or undefined), a number *)
(* [num |-> n], a string [str |-> s] or an array [arr |-> seq].            *)
(***************************************************************************)
EXTENDS Integers, Sequences, FiniteSets, TLC

Null == [null |-> TRUE]

\* ------------------------------------------------------------------ bounds
\* events of the environment taken into account in one behaviour: the client's
\* requests (rooms uploaded, image deletions, measurement edits, repeated
\* analyses) and the failures met (a detection call or a database statement
\* that throws), all together
MaxEvents == 3
\* image files uploaded in one behaviour
MaxImages == 2
\* candidates in the object list of one detection result
MaxObjects == 2

\* requests served one after the other behind the authentication middleware
MaxRequests == 1
\* registration requests served concurrently
MaxSignups == 2

\* --------------------------------------------------------------- strings
sWindow == <<"w","i","n","d","o","w">>
sWall == <<"w","a","l","l">>
sCladding == <<"c","l","a","d","d","i","n","g">>
sSiding == <<"s","i","d","i","n","g">>
sFoundation == <<"f","o","u","n","d","a","t","i","o","n">>
sMasonry == <<"m","a","s","o","n","r","y">>
sBrick == <<"b","r","i","c","k">>
sMasonryFoundation == sMasonry \o <<"_">> \o sFoundation
sBrickFoundation == sBrick \o <<"_">> \o sFoundation
sObject == <<"o","b","j","e","c","t">>
sHigh == <<"h","i","g","h">>
sMedium == <<"m","e","d","i","u","m">>
sLow == <<"l","o","w">>
sDoor == <<"d","o","o","r">>

IsSpace(ch) == ch \in {" ", "\t", "\n"}

UpperChars == {"A","B","C","D","E","F","G","H","I","J","K","L","M","N","O","P","Q","R","S","T","U","V","W","X","Y","Z"}

LowerOf(ch) ==
  CASE ch = "A" -> "a" [] ch = "B" -> "b" [] ch = "C" -> "c" [] ch = "D" -> "d"
    [] ch = "E" -> "e" [] ch = "F" -> "f" [] ch = "G" -> "g" [] ch = "H" -> "h"
    [] ch = "I" -> "i" [] ch = "J" -> "j" [] ch = "K" -> "k" [] ch = "L" -> "l"
    [] ch = "M" -> "m" [] ch = "N" -> "n" [] ch = "O" -> "o" [] ch = "P" -> "p"
    [] ch = "Q" -> "q" [] ch = "R" -> "r" [] ch = "S" -> "s" [] ch = "T" -> "t"
    [] ch = "U" -> "u" [] ch = "V" -> "v" [] ch = "W" -> "w" [] ch = "X" -> "x"
    [] ch = "Y" -> "y" [] ch = "Z" -> "z" [] OTHER -> ch

\* String.prototype.toLowerCase
toLowerCase(s) == [i \in 1..Len(s) |-> IF s[i] \in UpperChars THEN LowerOf(s[i]) ELSE s[i]]

RECURSIVE TrimLeft(_)
TrimLeft(s) == IF s # <<>> /\ IsSpace(Head(s)) THEN TrimLeft(Tail(s)) ELSE s

RECURSIVE TrimRight(_)
TrimRight(s) ==
  IF s # <<>> /\ IsSpace(s[Len(s)]) THEN TrimRight(SubSeq(s, 1, Len(s) - 1)) ELSE s

\* String.prototype.trim
trim(s) == TrimRight(TrimLeft(s))

\* String.prototype.replace(/\s+/g, '_'): every maximal run of whitespace
\* becomes one underscore
RECURSIVE ReplaceSpaceRuns(_)
ReplaceSpaceRuns(s) ==
  IF s = <<>> THEN <<>>
  ELSE IF IsSpace(Head(s)) THEN <<"_">> \o ReplaceSpaceRuns(TrimLeft(s))
  ELSE <<Head(s)>> \o ReplaceSpaceRuns(Tail(s))

Num(n) == [num |-> n]
Str(s) == [str |-> s]
Arr(a) == [arr |-> a]

IsNum(v) == "num" \in DOMAIN v
IsStr(v) == "str" \in DOMAIN v
IsArr(v) == "arr" \in DOMAIN v

\* JS truthiness of a string-or-null value, as used by `!type` and `a || b`
Truthy(v) == v # Null /\ v.str # <<>>

\* variant: inner whitespace is kept
normalizeTypeKeepingSpaces(type) ==
  IF ~Truthy(type) THEN Null
  ELSE Str(toLowerCase(trim(type.str)))

\* normalizeType: null for a missing or empty string
normalizeType(type) ==
  IF ~Truthy(type) THEN Null
  ELSE Str(ReplaceSpaceRuns(toLowerCase(trim(type.str))))

\* --------------------------------------------------------------- numbers
Digits == {"0","1","2","3","4","5","6","7","8","9"}

DigitVal(ch) ==
  CASE ch = "0" -> 0 [] ch = "1" -> 1 [] ch = "2" -> 2 [] ch = "3" -> 3
    [] ch = "4" -> 4 [] ch = "5" -> 5 [] ch = "6" -> 6 [] ch = "7" -> 7
    [] ch = "8" -> 8 [] ch = "9" -> 9

RECURSIVE ParseDigits(_, _)
ParseDigits(s, acc) ==
  IF s # <<>> /\ Head(s) \in Digits
    THEN ParseDigits(Tail(s), 10 * acc + DigitVal(Head(s)))
    ELSE acc

\* parseFloat restricted to unsigned integers: skips leading whitespace, reads
\* the longest digit prefix; NaN, which toNumber turns into null, when there
\* is none
parseFloat(s) ==
  LET t == TrimLeft(s)
  IN IF t # <<>> /\ Head(t) \in Digits THEN [num |-> ParseDigits(t, 0)] ELSE Null

\* toNumber: a finite number [num |-> n] or null
toNumber(value) ==
  IF value = Null THEN Null
  ELSE IF IsStr(value) THEN parseFloat(value.str)
  ELSE IF IsNum(value) THEN value
  ELSE Null

\* ------------------------------------------------------------- count maps
\* CountsMap: Record<string, number>, insertion ordered
EmptyMap == <<>>

HasKey(map, key) == \E i \in 1..Len(map) : map[i].key = key

Get(map, key) ==
  IF HasKey(map, key)
    THEN map[CHOOSE i \in 1..Len(map) : map[i].key = key].val
    ELSE 0

Keys(map) == [i \in 1..Len(map) |-> map[i].key]

KeySet(map) == {map[i].key : i \in 1..Len(map)}

\* variant: map[key] = value, the last candidate of a type wins
addToMapOverwriting(map, key, value) ==
  IF key = <<>> THEN map
  ELSE IF HasKey(map, key)
    THEN [i \in 1..Len(map) |->
            IF map[i].key = key THEN [key |-> key, val |-> value]
            ELSE map[i]]
    ELSE Append(map, [key |-> key, val |-> value])

\* addToMap(map, key, value): map[key] = (map[key] || 0) + value
addToMap(map, key, value) ==
  IF key = <<>> THEN map
  ELSE IF HasKey(map, key)
    THEN [i \in 1..Len(map) |->
            IF map[i].key = key THEN [key |-> key, val |-> map[i].val + value]
            ELSE map[i]]
    ELSE Append(map, [key |-> key, val |-> value])

\* ------------------------------------------------------ per-image reduction
\* A detection candidate (one element of json.objects):
\*   [type, name, confidence : Str(s) or Null,
\*    surface_area, estimated_width_feet, estimated_height_feet : JSON value]
Obj(type, name, confidence, area, w, h) ==
  [type |-> type, name |-> name, confidence |-> confidence,
   surface_area |-> area, estimated_width_feet |-> w, estimated_height_feet |-> h]

\* typeKey before the synonym folding:
\*   normalizeType(obj?.type) || normalizeType(obj?.name) || 'object'
RawTypeKey(obj) ==
  IF Truthy(normalizeType(obj.type)) THEN normalizeType(obj.type).str
  ELSE IF Truthy(normalizeType(obj.name)) THEN normalizeType(obj.name).str
  ELSE sObject

\* variant: masonry and brick are folded to the synonym cladding
FoldSynonymsToCladding(typeKey) ==
  LET k1 == IF typeKey = sWall \/ typeKey = sCladding THEN sSiding ELSE typeKey
      k2 == IF k1 = sMasonryFoundation \/ k1 = sBrickFoundation THEN sFoundation ELSE k1
      k3 == IF k2 = sMasonry \/ k2 = sBrick THEN sCladding ELSE k2
  IN k3

\* variant: masonry and brick are folded to foundation
FoldSynonymsBrickToFoundation(typeKey) ==
  LET k1 == IF typeKey = sWall \/ typeKey = sCladding THEN sSiding ELSE typeKey
      k2 == IF k1 = sMasonryFoundation \/ k1 = sBrickFoundation THEN sFoundation ELSE k1
      k3 == IF k2 = sMasonry \/ k2 = sBrick THEN sFoundation ELSE k2
  IN k3

\* the three synonym `if`s, applied in sequence
FoldSynonyms(typeKey) ==
  LET k1 == IF typeKey = sWall \/ typeKey = sCladding THEN sSiding ELSE typeKey
      k2 == IF k1 = sMasonryFoundation \/ k1 = sBrickFoundation THEN sFoundation ELSE k1
      k3 == IF k2 = sMasonry \/ k2 = sBrick THEN sSiding ELSE k2
  IN k3

CanonicalType(obj) == FoldSynonyms(RawTypeKey(obj))

\* obj?.confidence?.toLowerCase()
ConfidenceOf(obj) ==
  IF obj.confidence = Null THEN Null ELSE Str(toLowerCase(obj.confidence.str))

\* variant: medium and low are accepted for every type
AcceptConfidenceAnyType(typeKey, confidence) ==
  confidence = Str(sHigh) \/ confidence = Str(sMedium) \/ confidence = Str(sLow)

\* the negation of the `continue` condition of the confidence filter
AcceptConfidence(typeKey, confidence) ==
  LET isFoundationOrSiding == typeKey = sFoundation \/ typeKey = sSiding
  IN confidence = Str(sHigh)
       \/ (isFoundationOrSiding /\ (confidence = Str(sMedium) \/ confidence = Str(sLow)))

\* variant: width * height is preferred to surface_area
ObjectAreaWidthHeightFirst(obj) ==
  LET area == toNumber(obj.surface_area)
      w == toNumber(obj.estimated_width_feet)
      h == toNumber(obj.estimated_height_feet)
  IN IF w # Null /\ h # Null THEN Num(w.num * h.num)
     ELSE IF area # Null THEN area
     ELSE Null

\* area contributed by an accepted candidate: surface_area, else width * height,
\* else nothing (Null: the area map is not touched)
ObjectArea(obj) ==
  LET area == toNumber(obj.surface_area)
      w == toNumber(obj.estimated_width_feet)
      h == toNumber(obj.estimated_height_feet)
  IN IF area # Null THEN area
     ELSE IF w # Null /\ h # Null THEN Num(w.num * h.num)
     ELSE Null

\* one iteration of `for (const obj of json.objects)`
ReduceStep(acc, obj) ==
  LET typeKey == CanonicalType(obj)
      area == ObjectArea(obj)
  IN IF ~AcceptConfidence(typeKey, ConfidenceOf(obj)) THEN acc
     ELSE [countsByType |-> addToMap(acc.countsByType, typeKey, 1),
           areaSqftByType |->
             IF area # Null THEN addToMap(acc.areaSqftByType, typeKey, area.num)
             ELSE acc.areaSqftByType]

RECURSIVE ReduceFrom(_, _)
ReduceFrom(acc, objects) ==
  IF objects = <<>> THEN acc
  ELSE ReduceFrom(ReduceStep(acc, Head(objects)), Tail(objects))

EmptySummary == [countsByType |-> EmptyMap, areaSqftByType |-> EmptyMap]

\* the per-image maps of one detection result; json.objects that is not an
\* array leaves both maps empty
ReduceImage(json) ==
  IF ~IsArr(json.objects) THEN EmptySummary
  ELSE ReduceFrom(EmptySummary, json.objects.arr)

\* roomDimensions starts as {} (no field set)
EmptyDimensions ==
  [set |-> FALSE, estimated_width |-> Null, estimated_height |-> Null,
   estimated_length |-> Null]

\* toNumber(new) ?? old ?? null
MergeField(new, old) == IF toNumber(new) # Null THEN toNumber(new) ELSE old

\* `if (json?.room_dimensions) roomDimensions = {...}`
MergeDimensions(roomDimensions, json) ==
  IF json.room_dimensions = Null THEN roomDimensions
  ELSE [set |-> TRUE,
        estimated_width |->
          MergeField(json.room_dimensions.estimated_width, roomDimensions.estimated_width),
        estimated_height |->
          MergeField(json.room_dimensions.estimated_height, roomDimensions.estimated_height),
        estimated_length |->
          MergeField(json.room_dimensions.estimated_length, roomDimensions.estimated_length)]

\* for (const k of Object.keys(m)) addToMap(total, k, m[k])
RECURSIVE AddAll(_, _)
AddAll(total, m) ==
  IF m = <<>> THEN total
  ELSE AddAll(addToMap(total, Head(m).key, Head(m).val), Tail(m))

\* Array.from(new Set([...a, ...b])): first occurrences, in order
RECURSIVE Dedup(_, _)
Dedup(s, seen) ==
  IF s = <<>> THEN <<>>
  ELSE IF Head(s) \in seen THEN Dedup(Tail(s), seen)
  ELSE <<Head(s)>> \o Dedup(Tail(s), seen \cup {Head(s)})

\* variant: sqft is read from the counts
BuildItemsSqftFromCounts(totalCounts, totalArea) ==
  LET allTypes == Dedup(Keys(totalCounts) \o Keys(totalArea), {})
  IN [i \in 1..Len(allTypes) |->
        [type |-> allTypes[i],
         count |-> Get(totalCounts, allTypes[i]),
         sqft |-> Get(totalCounts, allTypes[i])]]

\* the consolidated items: one {type, count, sqft} per key of either total
BuildItems(totalCounts, totalArea) ==
  LET allTypes == Dedup(Keys(totalCounts) \o Keys(totalArea), {})
  IN [i \in 1..Len(allTypes) |->
        [type |-> allTypes[i],
         count |-> Get(totalCounts, allTypes[i]),
         sqft |-> Get(totalArea, allTypes[i])]]

\* the measurements payload written to rooms.measurements
BuildMeasurements(perImage, totalCounts, totalArea, roomDimensions, roomType) ==
  [images |-> perImage,
   aggregates |-> [items |-> BuildItems(totalCounts, totalArea),
                   countsByType |-> totalCounts,
                   areaSqftByType |-> totalArea,
                   roomDimensions |-> roomDimensions],
   model |-> [type |-> roomType]]

\* --------------------------------------------------------- detection inputs
\* What the detection endpoint may answer for an image (result.analysis).
JsonWindow ==
  [objects |-> Arr(<<Obj(Str(<<"W","i","n","d","o","w">>), Null, Str(sHigh),
                         Num(12), Null, Null)>>),
   room_dimensions |-> Null]

\* a wall at low confidence (counted as siding, 2 x 3), a window at low
\* confidence given by name only (rejected), two windows at high confidence,
\* one of them without any area, and a door at medium confidence (rejected)
JsonWallAndWindow ==
  [objects |-> Arr(<<Obj(Str(sWall), Null, Str(sLow), Null, Num(2), Str(<<"3">>)),
                     Obj(Null, Str(sWindow), Str(sLow), Num(5), Null, Null),
                     Obj(Str(sWindow), Null, Str(sHigh), Num(20), Null, Null),
                     Obj(Str(sWindow), Null, Str(sHigh), Null, Null, Null),
                     Obj(Str(sDoor), Null, Str(sMedium), Num(21), Null, Null)>>),
   room_dimensions |-> [estimated_width |-> Num(10), estimated_height |-> Str(<<"8">>),
                        estimated_length |-> Null]]

\* what the detection service answers for an uploaded image when it answers:
\* the analysis depends on the image, so a repeated call for the same URL gets
\* the same analysis
DetectionOf(url) == IF url % 2 = 1 THEN JsonWindow ELSE JsonWallAndWindow

RoomTypes == {"interior", "exterior"}

\* the scene type the request gives for a room (`r?.roomType || "interior"`):
\* no step of the upload, of the analysis or of the later requests branches on
\* it, so the rooms of the requests alternate between the two types
RoomTypeOf(roomId) == IF roomId % 2 = 1 THEN "exterior" ELSE "interior"

\* measurements a client may send for one image in PATCH /jobs/:id/details
EditedWindowCounts ==
  [objects |-> Arr(<<>>),
   countsByType |-> <<[key |-> sWindow, val |-> 5]>>,
   areaSqftByType |-> <<[key |-> sWindow, val |-> 40]>>,
   roomDimensions |-> Null]

PatchMeasurements == {EditedWindowCounts}

\* -------------------------------------------------------------------- state
VARIABLES
  rooms,        \* rooms table: room id -> Null (no such row) or the row
  roomImages,   \* room_images table: set of rows
  nextRoomId,   \* next fresh room id (gen_random_uuid)
  nextUrlId,    \* next fresh upload URL (timestamp-random destination key)
  tasks,        \* the analyzeImagesForRoom invocations, in start order
  upload,       \* the upload request being served (create-with-rooms, add-room)
  deletes,      \* the DELETE room image requests, in arrival order
  patches,      \* number of PATCH details requests served
  reruns,       \* number of repeated analyzeImagesForRoom invocations
  faults,       \* number of failures met so far (detection, database)
  written,      \* per room, the measurements the analysis has stored, in order
  reduction,    \* the reduction of one detection result, candidate by candidate
  access,       \* users, jobs and the authenticated request being served
  signup,       \* users by email and the registration requests being served
  edits,        \* the PATCH requests that edit a room's measurements, in arrival order
  roomDeletes   \* the DELETE /jobs/:jobId/rooms/:roomId requests, in arrival order

vars == <<rooms, roomImages, nextRoomId, nextUrlId, tasks, upload, deletes,
          patches, reruns, faults, written, reduction, access, signup, edits,
          roomDeletes>>

RoomIds == 1..MaxEvents

\* the events so far, the rooms an upload in progress has yet to store included
Events ==
  (nextRoomId - 1) + (IF upload.pc = "rooms" THEN upload.n - upload.done ELSE 0)
    + Len(deletes) + Len(roomDeletes) + patches + reruns + faults

\* the URLs of b files uploaded now: unique destination keys
FreshUrls(b) == [j \in 1..b |-> nextUrlId + j - 1]

RecordsOf(r) == {img \in roomImages : img.roomId = r}

\* no upload request has arrived yet
NoUpload == [n |-> 0, done |-> 0, pc |-> "idle", status |-> 0]

\* no detection result is being reduced
NoReduction ==
  [pc |-> "idle", roomType |-> "interior", objects |-> <<>>, j |-> 1, typeKeys |-> <<>>,
   countsByType |-> EmptyMap, areaSqftByType |-> EmptyMap,
   totalCounts |-> EmptyMap, totalArea |-> EmptyMap, items |-> <<>>]

\* the job ids of the requests
JobIds == 1..2

\* no request is behind the authentication middleware
NoRequest ==
  [pc |-> "none", header |-> Null, route |-> "", jobId |-> 1, body |-> "valid",
   user |-> Null, status |-> 0, ran |-> FALSE]

\* no users, no jobs, no request
NoAccess == [present |-> {}, jobs |-> [j \in JobIds |-> Null], req |-> NoRequest, served |-> 0]

\* no users by email and no registration request
NoSignup == [users |-> <<>>, requests |-> <<>>]

\* the tables are empty and no request has arrived
InitTables ==
  /\ rooms = [r \in RoomIds |-> Null]
  /\ roomImages = {}
  /\ nextRoomId = 1
  /\ nextUrlId = 1
  /\ tasks = <<>>
  /\ upload = NoUpload
  /\ deletes = <<>>
  /\ patches = 0
  /\ reruns = 0
  /\ faults = 0
  /\ written = [r \in RoomIds |-> <<>>]
  /\ edits = <<>>
  /\ roomDeletes = <<>>

Init == InitTables /\ reduction = NoReduction /\ access = NoAccess /\ signup = NoSignup

\* ------------------------------------------------------- analysis task steps
\* variant: the loop is left after its first iteration
LoopFinishedEarly(idx, urls) == idx > 1

\* the loop condition of `for (const url of imageUrls)`
LoopFinished(idx, urls) == idx > Len(urls)

\* variant: every detection call of the batch is started at once
StartAnalysisAllCalls(roomId, imageUrls, roomType) ==
  [room |-> roomId, urls |-> imageUrls, roomType |-> roomType,
   idx |-> 1,
   pc |-> IF LoopFinished(1, imageUrls) THEN "final" ELSE "detect",
   calls |-> 1..Len(imageUrls),
   cur |-> Null,
   perImage |-> <<>>,
   totalCounts |-> EmptyMap,
   totalArea |-> EmptyMap,
   roomDimensions |-> EmptyDimensions,
   logged |-> FALSE,
   outcome |-> "pending"]

\* The state of analyzeImagesForRoom(roomId, imageUrls, roomType) at its first
\* await: fresh totals, the first detection call in flight.
StartAnalysis(roomId, imageUrls, roomType) ==
  [room |-> roomId, urls |-> imageUrls, roomType |-> roomType,
   idx |-> 1,
   pc |-> IF LoopFinished(1, imageUrls) THEN "final" ELSE "detect",
   calls |-> IF LoopFinished(1, imageUrls) THEN {} ELSE {1},
   cur |-> Null,
   perImage |-> <<>>,
   totalCounts |-> EmptyMap,
   totalArea |-> EmptyMap,
   roomDimensions |-> EmptyDimensions,
   logged |-> FALSE,
   outcome |-> "pending"]

\* end of one loop iteration: the next detection call starts, or the loop ends
\* and the room update is issued
NextIteration(t) ==
  [t EXCEPT !.idx = t.idx + 1,
            !.cur = Null,
            !.pc = IF LoopFinished(t.idx + 1, t.urls) THEN "final" ELSE "detect",
            !.calls = IF LoopFinished(t.idx + 1, t.urls) THEN t.calls
                      ELSE t.calls \cup {t.idx + 1}]

\* variant: a failing image ends the loop
ImageFailedAborting(t) ==
  [t EXCEPT !.perImage = Append(t.perImage,
                           [url |-> t.urls[t.idx], summary |-> EmptySummary,
                            raw |-> [error |-> TRUE]]),
            !.idx = Len(t.urls) + 1,
            !.cur = Null,
            !.pc = "final"]

\* the per-image catch: an error marker, empty maps, then the next image
ImageFailed(t) ==
  NextIteration([t EXCEPT !.perImage =
    Append(t.perImage, [url |-> t.urls[t.idx], summary |-> EmptySummary,
                        raw |-> [error |-> TRUE]])])

\* after the room image was stored: push per-image, accumulate totals
ImageStored(t) ==
  NextIteration([t EXCEPT
    !.perImage = Append(t.perImage,
                   [url |-> t.urls[t.idx],
                    summary |-> [countsByType |-> t.cur.countsByType,
                                 areaSqftByType |-> t.cur.areaSqftByType],
                    raw |-> t.cur.json]),
    !.totalCounts = AddAll(t.totalCounts, t.cur.countsByType),
    !.totalArea = AddAll(t.totalArea, t.cur.areaSqftByType)])

\* the imageMeasurements object stored in room_images.measurements
ImageMeasurements(cur) ==
  [objects |-> IF cur.json.objects = Null THEN Arr(<<>>) ELSE cur.json.objects,
   countsByType |-> cur.countsByType,
   areaSqftByType |-> cur.areaSqftByType,
   roomDimensions |-> cur.json.room_dimensions]

TaskIds == 1..Len(tasks)

\* callDetectionApi resolves with `json`: the per-image maps are computed, the
\* room dimensions merged and the insert into room_images is issued
AnalyzeDetectOk(k, json) ==
  LET maps == ReduceImage(json) IN
  /\ tasks[k].pc = "detect"
  /\ tasks' = [tasks EXCEPT ![k] =
       [@ EXCEPT !.cur = [json |-> json,
                          countsByType |-> maps.countsByType,
                          areaSqftByType |-> maps.areaSqftByType],
                 !.roomDimensions = MergeDimensions(@, json),
                 !.pc = "insert"]]
  /\ UNCHANGED <<roomDeletes, edits, signup, access, reduction, faults, rooms, roomImages, nextRoomId, nextUrlId, upload, deletes,
                 patches, reruns, written>>

\* callDetectionApi throws (gs:// URI, image fetch failed, non-2xx answer,
\* malformed JSON)
AnalyzeDetectFail(k) ==
  /\ tasks[k].pc = "detect"
  /\ tasks' = [tasks EXCEPT ![k] = ImageFailed(@)]
  /\ Events < MaxEvents
  /\ faults' = faults + 1
  /\ UNCHANGED <<roomDeletes, edits, signup, access, reduction, rooms, roomImages, nextRoomId, nextUrlId, upload, deletes,
                 patches, reruns, written>>

\* db.insert(roomImages) succeeds: the table has no unique constraint on
\* (room_id, image_url), only the foreign key to rooms
AnalyzeInsertOk(k) ==
  /\ tasks[k].pc = "insert"
  /\ rooms[tasks[k].room] # Null
  /\ roomImages' = roomImages \cup
       {[id |-> <<k, tasks[k].idx>>, roomId |-> tasks[k].room,
         imageUrl |-> tasks[k].urls[tasks[k].idx],
         measurements |-> ImageMeasurements(tasks[k].cur)]}
  /\ tasks' = [tasks EXCEPT ![k] = ImageStored(@)]
  /\ UNCHANGED <<roomDeletes, edits, signup, access, reduction, faults, rooms, nextRoomId, nextUrlId, upload, deletes, patches, reruns,
                 written>>

\* db.insert(roomImages) throws (foreign key violation when the room is gone,
\* or a database error): the inner catch issues the update
AnalyzeInsertFail(k) ==
  /\ tasks[k].pc = "insert"
  /\ tasks' = [tasks EXCEPT ![k] = [@ EXCEPT !.pc = "update"]]
  /\ rooms[tasks[k].room] = Null \/ Events < MaxEvents
  /\ faults' = IF rooms[tasks[k].room] = Null THEN faults ELSE faults + 1
  /\ UNCHANGED <<roomDeletes, edits, signup, access, reduction, rooms, roomImages, nextRoomId, nextUrlId, upload, deletes,
                 patches, reruns, written>>

\* db.update(roomImages) where room_id and image_url match: every matching row
\* (possibly none) gets the new measurements
AnalyzeUpdateOk(k) ==
  /\ tasks[k].pc = "update"
  /\ roomImages' =
       {IF img.roomId = tasks[k].room /\ img.imageUrl = tasks[k].urls[tasks[k].idx]
          THEN [img EXCEPT !.measurements = ImageMeasurements(tasks[k].cur)]
          ELSE img : img \in roomImages}
  /\ tasks' = [tasks EXCEPT ![k] = ImageStored(@)]
  /\ UNCHANGED <<roomDeletes, edits, signup, access, reduction, faults, rooms, nextRoomId, nextUrlId, upload, deletes, patches,
                 reruns, written>>

\* db.update(roomImages) throws too: the per-image catch takes over
AnalyzeUpdateFail(k) ==
  /\ tasks[k].pc = "update"
  /\ tasks' = [tasks EXCEPT ![k] = ImageFailed(@)]
  /\ Events < MaxEvents
  /\ faults' = faults + 1
  /\ UNCHANGED <<roomDeletes, edits, signup, access, reduction, rooms, roomImages, nextRoomId, nextUrlId, upload, deletes,
                 patches, reruns, written>>

\* variant: the new totals are added to the stored ones
StoreMeasurementsAdding(existing, measurements) ==
  IF existing = Null THEN measurements
  ELSE [measurements EXCEPT
          !.aggregates.countsByType = AddAll(existing.aggregates.countsByType, @),
          !.aggregates.areaSqftByType = AddAll(existing.aggregates.areaSqftByType, @)]

\* db.update(rooms).set({ measurements }): the column is overwritten
StoreMeasurements(existing, measurements) == measurements

\* variant: the aggregates are written before the failure, the rest is not
FailedRoomUpdatePartial(existing, measurements) ==
  IF existing = Null
    THEN [measurements EXCEPT !.images = <<>>]
    ELSE [existing EXCEPT !.aggregates = measurements.aggregates]

\* a db.update(rooms) that throws leaves the row as it was
FailedRoomUpdate(existing, measurements) == existing

\* variant: the outer catch rethrows
OuterCatchRethrowing == "rejected"

\* the outer catch swallows the error: the promise resolves
OuterCatch == "resolved"

\* analyzeImagesForRoom has returned: its locals are gone, what remains is how
\* the promise settled and whether the outer catch logged an error
Returned(t, outcome, logged) ==
  [room |-> t.room, urls |-> t.urls, roomType |-> t.roomType,
   idx |-> t.idx, pc |-> "done", calls |-> {}, cur |-> Null,
   perImage |-> <<>>, totalCounts |-> EmptyMap, totalArea |-> EmptyMap,
   roomDimensions |-> EmptyDimensions,
   logged |-> logged,
   outcome |-> outcome]

\* variant: the run's totals are added to the totals another run has stored
TaskMeasurementsOverStored(t) ==
  LET own == BuildMeasurements(t.perImage, t.totalCounts, t.totalArea, t.roomDimensions,
                               t.roomType)
      stored == IF rooms[t.room] = Null THEN Null ELSE rooms[t.room].measurements
  IN IF stored = Null THEN own
     ELSE [own EXCEPT
             !.aggregates.countsByType = AddAll(stored.aggregates.countsByType, @),
             !.aggregates.areaSqftByType = AddAll(stored.aggregates.areaSqftByType, @)]

\* the measurements object built from the run's own locals
TaskMeasurements(t) ==
  BuildMeasurements(t.perImage, t.totalCounts, t.totalArea, t.roomDimensions, t.roomType)

\* db.update(rooms) succeeds (updating no row when the room is gone)
AnalyzeFinalOk(k) ==
  LET t == tasks[k] IN
  /\ t.pc = "final"
  /\ IF rooms[t.room] = Null
       THEN UNCHANGED <<rooms, written>>
       ELSE /\ rooms' = [rooms EXCEPT ![t.room].measurements =
                           StoreMeasurements(@, TaskMeasurements(t))]
            /\ written' = [written EXCEPT ![t.room] =
                             Append(@, rooms'[t.room].measurements)]
  /\ tasks' = [tasks EXCEPT ![k] = Returned(@, "resolved", FALSE)]
  /\ UNCHANGED <<roomDeletes, edits, signup, access, reduction, faults, roomImages, nextRoomId, nextUrlId, upload, deletes, patches, reruns>>

\* db.update(rooms) throws: outer catch
AnalyzeFinalFail(k) ==
  LET t == tasks[k] IN
  /\ t.pc = "final"
  /\ rooms' = [rooms EXCEPT ![t.room] =
                 IF @ = Null THEN Null
                 ELSE [@ EXCEPT !.measurements =
                         FailedRoomUpdate(@, TaskMeasurements(t))]]
  /\ tasks' = [tasks EXCEPT ![k] = Returned(@, OuterCatch, TRUE)]
  /\ Events < MaxEvents
  /\ faults' = faults + 1
  /\ UNCHANGED <<roomDeletes, edits, signup, access, reduction, roomImages, nextRoomId, nextUrlId, upload, deletes, patches,
                 reruns, written>>

\* ------------------------------------------------------------ upload requests
\* variant: the handler awaits the analysis before it goes on
UploadPcAwaitingAnalysis(isLast) == "awaiting"

\* `analyzeImagesForRoom(...).catch(() => {})` is not awaited: the handler goes
\* on to the next room, or to its 201 response after the last one
UploadPcAfterAnalysisStart(isLast) == IF isLast THEN "responded" ELSE "rooms"

\* POST /jobs/create-with-rooms with n rooms has passed its checks and stored
\* its job; it is about to store its first room.  Requests are served one
\* after the other.
CreateWithRoomsBegin(n) ==
  /\ upload.pc \in {"idle", "responded"}
  /\ Events + n <= MaxEvents
  /\ upload' = [n |-> n, done |-> 0, pc |-> "rooms", status |-> 0]
  /\ UNCHANGED <<roomDeletes, edits, signup, access, reduction, faults, rooms, roomImages, nextRoomId, nextUrlId, tasks,
                 deletes, patches, reruns, written>>

\* POST /jobs/:id/add-room: the same steps for exactly one room
AddRoomBegin ==
  /\ upload.pc \in {"idle", "responded"}
  /\ Events + 1 <= MaxEvents
  /\ upload' = [n |-> 1, done |-> 0, pc |-> "rooms", status |-> 0]
  /\ UNCHANGED <<roomDeletes, edits, signup, access, reduction, faults, rooms, roomImages, nextRoomId, nextUrlId, tasks,
                 deletes, patches, reruns, written>>

\* one room of the request: insert the room, upload its b files, set imageUrls,
\* start the background analysis when there is at least one URL
UploadRoom(b, roomType) ==
  LET r == nextRoomId
      uploadedUrls == FreshUrls(b)
      pcAfter == UploadPcAfterAnalysisStart(upload.done + 1 = upload.n)
  IN
  /\ upload.pc = "rooms"
  /\ nextUrlId + b - 1 <= MaxImages
  /\ rooms' = [rooms EXCEPT ![r] =
       [roomType |-> roomType, imageUrls |-> uploadedUrls, measurements |-> Null]]
  /\ nextRoomId' = r + 1
  /\ nextUrlId' = nextUrlId + b
  /\ tasks' = IF Len(uploadedUrls) > 0
                THEN Append(tasks, StartAnalysis(r, uploadedUrls, roomType))
                ELSE tasks
  /\ upload' = [upload EXCEPT !.done = @ + 1,
                              !.pc = pcAfter,
                              !.status = IF pcAfter = "responded" THEN 201 ELSE 0]
  /\ UNCHANGED <<roomDeletes, edits, signup, access, reduction, faults, roomImages, deletes, patches, reruns, written>>

\* storing a room fails at the insert (database error): the handler's catch
\* answers 500 and no later room of the request is stored.  (A failure after
\* the insert leaves a room without URLs and without analysis, the state an
\* upload of no files also produces.)
UploadRoomFail ==
  /\ upload.pc = "rooms"
  /\ upload' = [upload EXCEPT !.pc = "responded", !.status = 500]
  /\ Events < MaxEvents
  /\ faults' = faults + 1
  /\ UNCHANGED <<roomDeletes, edits, signup, access, reduction, rooms, roomImages, nextRoomId, nextUrlId, tasks,
                 deletes, patches, reruns, written>>

\* --------------------------------------- DELETE /jobs/:jobId/rooms/:roomId/images/:imageId
RECURSIVE FilterOut(_, _)
FilterOut(urls, url) ==
  IF urls = <<>> THEN <<>>
  ELSE IF Head(urls) = url THEN FilterOut(Tail(urls), url)
  ELSE <<Head(urls)>> \o FilterOut(Tail(urls), url)

\* job, room and room image are found; the handler holds the rows it read
DeleteImageBegin(r, img) ==
  /\ Events < MaxEvents
  /\ rooms[r] # Null
  /\ img \in roomImages
  /\ img.roomId = r
  /\ deletes' = Append(deletes,
       [pc |-> "updateUrls", roomId |-> r, imageId |-> img.id,
        imageUrl |-> img.imageUrl, imageUrls |-> rooms[r].imageUrls, status |-> 0])
  /\ UNCHANGED <<roomDeletes, edits, signup, access, reduction, faults, rooms, roomImages, nextRoomId, nextUrlId, tasks, upload,
                 patches, reruns, written>>

\* db.update(rooms).set({ imageUrls: updatedImageUrls })
DeleteImageUpdateUrls(d) ==
  LET req == deletes[d] IN
  /\ req.pc = "updateUrls"
  /\ rooms' = [rooms EXCEPT ![req.roomId] =
       IF @ = Null THEN Null
       ELSE [@ EXCEPT !.imageUrls = FilterOut(req.imageUrls, req.imageUrl)]]
  /\ deletes' = [deletes EXCEPT ![d] = [@ EXCEPT !.pc = "deleteImage"]]
  /\ UNCHANGED <<roomDeletes, edits, signup, access, reduction, faults, roomImages, nextRoomId, nextUrlId, tasks, upload, patches,
                 reruns, written>>

\* db.delete(roomImages).where(eq(roomImages.id, imageId))
DeleteImageRow(d) ==
  LET req == deletes[d] IN
  /\ req.pc = "deleteImage"
  /\ roomImages' = {img \in roomImages : img.id # req.imageId}
  /\ deletes' = [deletes EXCEPT ![d] = [@ EXCEPT !.pc = "remaining"]]
  /\ UNCHANGED <<roomDeletes, edits, signup, access, reduction, faults, rooms, nextRoomId, nextUrlId, tasks, upload, patches, reruns,
                 written>>

\* remainingImages = findMany(room_id = roomId); respond when some remain
DeleteImageRemaining(d) ==
  LET req == deletes[d] IN
  /\ req.pc = "remaining"
  /\ deletes' = [deletes EXCEPT ![d] =
       IF RecordsOf(req.roomId) = {}
         THEN [@ EXCEPT !.pc = "deleteRoom"]
         ELSE [@ EXCEPT !.pc = "responded", !.status = 200]]
  /\ UNCHANGED <<roomDeletes, edits, signup, access, reduction, faults, rooms, roomImages, nextRoomId, nextUrlId, tasks, upload,
                 patches, reruns, written>>

\* db.delete(rooms): refused by the foreign key of room_images (ON DELETE no
\* action) when a row still references the room; the catch answers 500
DeleteImageRoom(d) ==
  LET req == deletes[d] IN
  /\ req.pc = "deleteRoom"
  /\ IF RecordsOf(req.roomId) = {}
       THEN /\ rooms' = [rooms EXCEPT ![req.roomId] = Null]
            /\ deletes' = [deletes EXCEPT ![d] = [@ EXCEPT !.pc = "responded", !.status = 200]]
       ELSE /\ UNCHANGED rooms
            /\ deletes' = [deletes EXCEPT ![d] = [@ EXCEPT !.pc = "responded", !.status = 500]]
  /\ UNCHANGED <<roomDeletes, edits, signup, access, reduction, faults, roomImages, nextRoomId, nextUrlId, tasks, upload, patches,
                 reruns, written>>

\* ------------------------------------------ DELETE /jobs/:jobId/rooms/:roomId
\* job and room are found and the user has access
DeleteRoomBegin(r) ==
  /\ Events < MaxEvents
  /\ rooms[r] # Null
  /\ roomDeletes' = Append(roomDeletes, [roomId |-> r, pc |-> "deleteImages", status |-> 0])
  /\ UNCHANGED <<edits, signup, access, reduction, faults, rooms, roomImages, nextRoomId, nextUrlId,
                 tasks, upload, deletes, patches, reruns, written>>

\* db.delete(roomImages).where(eq(roomImages.roomId, roomId))
DeleteRoomImages(q) ==
  LET req == roomDeletes[q] IN
  /\ req.pc = "deleteImages"
  /\ roomImages' = roomImages \ RecordsOf(req.roomId)
  /\ roomDeletes' = [roomDeletes EXCEPT ![q] = [@ EXCEPT !.pc = "deleteRoom"]]
  /\ UNCHANGED <<edits, signup, access, reduction, faults, rooms, nextRoomId, nextUrlId,
                 tasks, upload, deletes, patches, reruns, written>>

\* variant: the room row is deleted whatever references it
DeleteRoomRowUnchecked(q) ==
  LET req == roomDeletes[q] IN
  /\ req.pc = "deleteRoom"
  /\ rooms' = [rooms EXCEPT ![req.roomId] = Null]
  /\ roomDeletes' = [roomDeletes EXCEPT ![q] = [@ EXCEPT !.pc = "responded", !.status = 200]]
  /\ UNCHANGED <<edits, signup, access, reduction, faults, roomImages, nextRoomId, nextUrlId,
                 tasks, upload, deletes, patches, reruns, written>>

\* db.delete(rooms).where(eq(rooms.id, roomId)): refused by the foreign key of
\* room_images (ON DELETE no action) when a row inserted since references the
\* room, and the catch answers 500; deleting a row that is already gone
\* succeeds
DeleteRoomRow(q) ==
  LET req == roomDeletes[q] IN
  /\ req.pc = "deleteRoom"
  /\ IF RecordsOf(req.roomId) = {}
       THEN /\ rooms' = [rooms EXCEPT ![req.roomId] = Null]
            /\ roomDeletes' = [roomDeletes EXCEPT ![q] =
                                 [@ EXCEPT !.pc = "responded", !.status = 200]]
       ELSE /\ UNCHANGED rooms
            /\ roomDeletes' = [roomDeletes EXCEPT ![q] =
                                 [@ EXCEPT !.pc = "responded", !.status = 500]]
  /\ UNCHANGED <<edits, signup, access, reduction, faults, roomImages, nextRoomId, nextUrlId,
                 tasks, upload, deletes, patches, reruns, written>>

\* ------------------------------------ PATCH /jobs/:id/details, imageMeasurements
\* one imageData entry for room r: the rows of (r, imageUrl) get the client's
\* measurements; the room's measurements column is not touched (a request
\* that matches no row changes nothing and is left out)
PatchImageMeasurements(r, imageUrl, measurements) ==
  /\ Events < MaxEvents
  /\ rooms[r] # Null
  /\ \E img \in roomImages : img.roomId = r /\ img.imageUrl = imageUrl
  /\ roomImages' =
       {IF img.roomId = r /\ img.imageUrl = imageUrl
          THEN [img EXCEPT !.measurements = measurements]
          ELSE img : img \in roomImages}
  /\ patches' = patches + 1
  /\ UNCHANGED <<roomDeletes, edits, signup, access, reduction, faults, rooms, nextRoomId, nextUrlId, tasks, upload, deletes, reruns,
                 written>>

\* ------------------------------------------------ repeated analysis of a room
\* a retry: analyzeImagesForRoom is invoked again for an existing room, with
\* the room's image URLs, once its earlier runs have returned
Reanalyze(r) ==
  /\ Events < MaxEvents
  /\ rooms[r] # Null
  /\ rooms[r].imageUrls # <<>>
  /\ \A k \in TaskIds : tasks[k].room = r => tasks[k].pc = "done"
  /\ tasks' = Append(tasks, StartAnalysis(r, rooms[r].imageUrls, rooms[r].roomType))
  /\ reruns' = reruns + 1
  /\ UNCHANGED <<roomDeletes, edits, signup, access, reduction, faults, rooms, roomImages, nextRoomId, nextUrlId, upload,
                 deletes, patches, written>>

\* a second batch for the room: analyzeImagesForRoom is invoked for a room
\* while an earlier run for it has not returned; the function takes no lock
ReanalyzeOverlapping(r) ==
  /\ Events < MaxEvents
  /\ rooms[r] # Null
  /\ rooms[r].imageUrls # <<>>
  /\ \E k \in TaskIds : tasks[k].room = r /\ tasks[k].pc # "done"
  /\ tasks' = Append(tasks, StartAnalysis(r, rooms[r].imageUrls, rooms[r].roomType))
  /\ reruns' = reruns + 1
  /\ UNCHANGED <<roomDeletes, edits, signup, access, reduction, faults, rooms, roomImages, nextRoomId, nextUrlId, upload,
                 deletes, patches, written>>

\* ------------------------------------------ GET /jobs/:id/rooms/estimated-items
\* the characters of the model's strings in increasing UTF-16 code unit order
CodeUnits ==
  <<"\t", " ", "0", "1", "2", "3", "4", "5", "6", "7", "8", "9",
    "A", "B", "C", "D", "E", "F", "G", "H", "I", "J", "K", "L", "M",
    "N", "O", "P", "Q", "R", "S", "T", "U", "V", "W", "X", "Y", "Z", "_",
    "a", "b", "c", "d", "e", "f", "g", "h", "i", "j", "k", "l", "m",
    "n", "o", "p", "q", "r", "s", "t", "u", "v", "w", "x", "y", "z">>

CharCode(c) == CHOOSE i \in 1..Len(CodeUnits) : CodeUnits[i] = c

RECURSIVE StringLessEq(_, _)
\* the default comparison of Array.prototype.sort: by UTF-16 code units
StringLessEq(a, b) ==
  IF a = <<>> THEN TRUE
  ELSE IF b = <<>> THEN FALSE
  ELSE IF Head(a) = Head(b) THEN StringLessEq(Tail(a), Tail(b))
  ELSE CharCode(Head(a)) < CharCode(Head(b))

RECURSIVE SortStrings(_)
\* Array.from(set).sort()
SortStrings(S) ==
  IF S = {} THEN <<>>
  ELSE LET least == CHOOSE x \in S : \A y \in S : StringLessEq(x, y)
       IN <<least>> \o SortStrings(S \ {least})

\* the types added to itemCategoriesSet for room r: the `type` of every stored
\* object of every image of the room that is a non-empty string
ItemCategoriesSet(r) ==
  UNION {LET objects == img.measurements.objects
         IN IF IsArr(objects)
              THEN {objects.arr[i].type.str :
                      i \in {n \in 1..Len(objects.arr) :
                               Truthy(objects.arr[n].type) /\ IsStr(objects.arr[n].type)}}
              ELSE {} :
         img \in RecordsOf(r)}

\* result[room.id] of the answer, for a room of the job
EstimatedItemCategories(r) == SortStrings(ItemCategoriesSet(r))

\* ------------------------------------------------------------- specification
AnalysisStep ==
  \E k \in TaskIds :
    \/ AnalyzeDetectOk(k, DetectionOf(tasks[k].urls[tasks[k].idx]))
    \/ AnalyzeDetectFail(k)
    \/ AnalyzeInsertOk(k)
    \/ AnalyzeInsertFail(k)
    \/ AnalyzeUpdateOk(k)
    \/ AnalyzeUpdateFail(k)
    \/ AnalyzeFinalOk(k)
    \/ AnalyzeFinalFail(k)

UploadStep ==
  \/ \E n \in 1..MaxEvents : CreateWithRoomsBegin(n)
  \/ AddRoomBegin
  \/ \E b \in 0..MaxImages : UploadRoom(b, RoomTypeOf(nextRoomId))
  \/ UploadRoomFail

DeleteStep ==
  \/ \E r \in RoomIds, img \in roomImages : DeleteImageBegin(r, img)
  \/ \E d \in 1..Len(deletes) :
       \/ DeleteImageUpdateUrls(d)
       \/ DeleteImageRow(d)
       \/ DeleteImageRemaining(d)
       \/ DeleteImageRoom(d)

PatchStep ==
  \E img \in roomImages, m \in PatchMeasurements :
    PatchImageMeasurements(img.roomId, img.imageUrl, m)

RerunStep == \E r \in RoomIds : Reanalyze(r)

Next == AnalysisStep \/ UploadStep \/ DeleteStep \/ PatchStep

Spec == Init /\ [][Next]_vars

DeleteRoomStep ==
  \/ \E r \in RoomIds : DeleteRoomBegin(r)
  \/ \E q \in 1..Len(roomDeletes) :
       \/ DeleteRoomImages(q)
       \/ DeleteRoomRow(q)

\* uploads, analysis runs, image deletions and room deletions
NextDeleteRoom == AnalysisStep \/ UploadStep \/ DeleteStep \/ DeleteRoomStep

SpecDeleteRoom == Init /\ [][NextDeleteRoom]_vars

OverlapStep == \E r \in RoomIds : ReanalyzeOverlapping(r)

\* uploads and analysis runs that overlap on a room
NextOverlap == AnalysisStep \/ UploadStep \/ OverlapStep

SpecOverlap == Init /\ [][NextOverlap]_vars

\* uploads, analysis runs and retries of the analysis
NextRetry == AnalysisStep \/ UploadStep \/ RerunStep

SpecRetry == Init /\ [][NextRetry]_vars

\* ------------------------------------------- reduction of one detection result
\* Candidates a detection result may hold (elements of json.objects)
cWindowHigh == Obj(Str(<<"W","i","n","d","o","w">>), Null, Str(sHigh), Num(12), Null, Null)
cWallLow == Obj(Str(sWall), Null, Str(sLow), Null, Num(2), Str(<<"3">>))
cWindowLow == Obj(Null, Str(sWindow), Str(sLow), Num(5), Null, Null)
cBrickMedium == Obj(Str(sBrick), Null, Str(sMedium), Null, Null, Null)
cMasonryFoundation ==
  Obj(Str(<<" ","M","a","s","o","n","r","y"," "," ","F","o","u","n","d","a","t","i","o","n"," ">>),
      Null, Str(<<"H","I","G","H">>), Str(<<"x">>), Num(3), Num(4))
cBlankType ==
  Obj(Str(<<" ">>), Str(<<"B","a","y"," ","\t"," ","W","i","n","d","o","w">>), Str(sHigh),
      Null, Num(3), Null)
cNoLabel == Obj(Null, Null, Str(sHigh), Str(<<"7">>), Num(2), Num(2))
cUnknownTag == Obj(Str(sSiding), Null, Str(<<"c","e","r","t","a","i","n">>), Num(9), Null, Null)
cNoTag == Obj(Str(sFoundation), Null, Null, Num(4), Null, Null)
cCladding == Obj(Str(sCladding), Null, Str(sHigh), Num(0), Null, Null)
cBrickFoundation == Obj(Str(sBrickFoundation), Null, Str(sLow), Null, Null, Null)
cMasonry == Obj(Str(sMasonry), Str(sFoundation), Str(sMedium), Null, Null, Num(5))

Candidates ==
  {cWindowHigh, cWallLow, cWindowLow, cBrickMedium, cMasonryFoundation, cBlankType,
   cNoLabel, cUnknownTag, cNoTag, cCladding, cBrickFoundation, cMasonry}

\* the object lists of at most MaxObjects candidates
ObjectLists == UNION {[1..n -> Candidates] : n \in 0..MaxObjects}

\* analyzeImagesForRoom(roomId, [url], roomType) after callDetectionApi has
\* resolved with these objects: the per-image maps are empty
StartReduction(objects, roomType) ==
  [NoReduction EXCEPT !.pc = "objects", !.roomType = roomType, !.objects = objects]

InitReduction ==
  /\ InitTables
  /\ access = NoAccess
  /\ signup = NoSignup
  /\ \E objects \in ObjectLists, roomType \in RoomTypes :
       reduction = StartReduction(objects, roomType)

\* one iteration of `for (const obj of json.objects)`
ReduceObject ==
  LET obj == reduction.objects[reduction.j]
      acc == ReduceStep([countsByType |-> reduction.countsByType,
                         areaSqftByType |-> reduction.areaSqftByType], obj)
  IN
  /\ reduction.pc = "objects"
  /\ reduction.j <= Len(reduction.objects)
  /\ reduction' = [reduction EXCEPT
       !.j = @ + 1,
       !.typeKeys = Append(@, CanonicalType(obj)),
       !.countsByType = acc.countsByType,
       !.areaSqftByType = acc.areaSqftByType]
  /\ UNCHANGED <<roomDeletes, edits, signup, access, rooms, roomImages, nextRoomId, nextUrlId, tasks, upload, deletes,
                 patches, reruns, faults, written>>

\* the object loop has ended: accumulate the totals of the run
AccumulateTotals ==
  /\ reduction.pc = "objects"
  /\ reduction.j > Len(reduction.objects)
  /\ reduction' = [reduction EXCEPT
       !.pc = "totals",
       !.totalCounts = AddAll(@, reduction.countsByType),
       !.totalArea = AddAll(@, reduction.areaSqftByType)]
  /\ UNCHANGED <<roomDeletes, edits, signup, access, rooms, roomImages, nextRoomId, nextUrlId, tasks, upload, deletes,
                 patches, reruns, faults, written>>

\* the image loop has ended: build the consolidated items
BuildAggregateItems ==
  /\ reduction.pc = "totals"
  /\ reduction' = [reduction EXCEPT
       !.pc = "done",
       !.items = BuildItems(reduction.totalCounts, reduction.totalArea)]
  /\ UNCHANGED <<roomDeletes, edits, signup, access, rooms, roomImages, nextRoomId, nextUrlId, tasks, upload, deletes,
                 patches, reruns, faults, written>>

NextReduction == ReduceObject \/ AccumulateTotals \/ BuildAggregateItems

SpecReduction == InitReduction /\ [][NextReduction]_vars

\* -------------------- PATCH estimated-items and PATCH /jobs/:id/details (legacy)
\* Number.isFinite(Number(v)) ? Number(v) : 0 for a JSON value: a string
\* counts when, trimmed, it is empty (0) or all digits
NumberOrZero(v) ==
  IF v = Null THEN 0
  ELSE IF IsNum(v) THEN v.num
  ELSE IF IsStr(v) /\ \A i \in 1..Len(trim(v.str)) : trim(v.str)[i] \in Digits
    THEN ParseDigits(trim(v.str), 0)
  ELSE 0

\* a JSON boolean
Bool(b) == [bool |-> b]

\* an item of the request: type, count, sqft and selected are JSON values
ItemInput(type, count, sqft, selected) ==
  [type |-> type, count |-> count, sqft |-> sqft, selected |-> selected]

\* the normalized item as stored: `selected: undefined` is not serialized
NormalizedItem(type, count, sqft, selected) ==
  IF "bool" \in DOMAIN selected
    THEN [type |-> type, count |-> count, sqft |-> sqft, selected |-> selected.bool]
    ELSE [type |-> type, count |-> count, sqft |-> sqft]

\* variant: the maps keep the values of the last item of a type
NormalizeStepOverwriting(acc, it) ==
  LET type == IF Truthy(it.type) THEN trim(it.type.str) ELSE <<>>
      count == NumberOrZero(it.count)
      sqft == NumberOrZero(it.sqft)
  IN IF type = <<>> THEN acc
     ELSE [items |-> Append(acc.items, NormalizedItem(type, count, sqft, it.selected)),
           countsByType |-> addToMap(acc.countsByType, type, count - Get(acc.countsByType, type)),
           areaSqftByType |-> addToMap(acc.areaSqftByType, type, sqft - Get(acc.areaSqftByType, type))]

\* one iteration of `for (const it of itemsInput)`
NormalizeStep(acc, it) ==
  LET type == IF Truthy(it.type) THEN trim(it.type.str) ELSE <<>>
      count == NumberOrZero(it.count)
      sqft == NumberOrZero(it.sqft)
  IN IF type = <<>> THEN acc
     ELSE [items |-> Append(acc.items, NormalizedItem(type, count, sqft, it.selected)),
           countsByType |-> addToMap(acc.countsByType, type, count),
           areaSqftByType |-> addToMap(acc.areaSqftByType, type, sqft)]

RECURSIVE NormalizeItems(_, _)
\* normalizedItems, countsByType and areaSqftByType of the legacy branch
NormalizeItems(acc, itemsInput) ==
  IF itemsInput = <<>> THEN acc
  ELSE NormalizeItems(NormalizeStep(acc, Head(itemsInput)), Tail(itemsInput))

\* { ...rec, [field]: value }; rec is Null for `{}`
Spread(rec, field, value) ==
  [f \in (IF rec = Null THEN {} ELSE DOMAIN rec) \cup {field} |->
     IF f = field THEN value ELSE rec[f]]

\* obj[field], Null when the object or the field is missing
Field(rec, field) ==
  IF rec = Null THEN Null ELSE IF field \in DOMAIN rec THEN rec[field] ELSE Null

\* newMeasurements of the legacy branch
LegacyMeasurements(existing, itemsInput, roomDimensionsInput) ==
  LET existingAggregates == Field(existing, "aggregates")
      n == NormalizeItems([items |-> <<>>, countsByType |-> EmptyMap,
                           areaSqftByType |-> EmptyMap], itemsInput)
      a1 == Spread(existingAggregates, "items", n.items)
      a2 == Spread(a1, "countsByType", n.countsByType)
      a3 == Spread(a2, "areaSqftByType", n.areaSqftByType)
      newAggregates ==
        Spread(a3, "roomDimensions",
               IF roomDimensionsInput # Null THEN roomDimensionsInput
               ELSE Field(existingAggregates, "roomDimensions"))
  IN Spread(existing, "aggregates", newAggregates)

RECURSIVE FilterIn(_, _)
\* unselectedItems.filter(cat => estimatedCategories.includes(cat))
FilterIn(items, categories) ==
  IF items = <<>> THEN <<>>
  ELSE IF Head(items) \in categories THEN <<Head(items)>> \o FilterIn(Tail(items), categories)
  ELSE FilterIn(Tail(items), categories)

\* updatedMeasurements of PATCH estimated-items
CategoryMeasurements(existing, selectedItems, unselectedItems, estimatedCategories) ==
  Spread(Spread(existing, "selectedCategories", selectedItems),
         "unselectedCategories", FilterIn(unselectedItems, estimatedCategories))

\* the items a client sends to the legacy branch: two items of one type, one
\* with a count that is not a number and no `selected`, and one without type
EditedItems ==
  <<ItemInput(Str(sWindow), Num(4), Str(<<"3","0">>), Bool(TRUE)),
    ItemInput(Str(<<" ">> \o sWindow), Str(<<"x">>), Num(5), Null),
    ItemInput(Str(<<" ">>), Num(9), Num(9), Bool(FALSE))>>

\* the categories a client selects and unselects
SelectedItems == <<sWindow>>
UnselectedItems == <<sDoor, sBrick>>

EditKinds == {"categories", "items"}

\* the handler has found the job and read the room row
EditBegin(r, kind) ==
  /\ Events < MaxEvents
  /\ rooms[r] # Null
  /\ edits' = Append(edits,
       [roomId |-> r, kind |-> kind, existing |-> rooms[r].measurements,
        estimatedCategories |-> {}, status |-> 0,
        pc |-> IF kind = "categories" THEN "images" ELSE "update"])
  /\ patches' = patches + 1
  /\ UNCHANGED <<roomDeletes, signup, access, reduction, faults, rooms, roomImages, nextRoomId, nextUrlId,
                 tasks, upload, deletes, reruns, written>>

\* PATCH estimated-items reads the room's images for the estimated categories
EditReadImages(e) ==
  /\ edits[e].pc = "images"
  /\ edits' = [edits EXCEPT ![e] =
       [@ EXCEPT !.estimatedCategories = ItemCategoriesSet(edits[e].roomId), !.pc = "update"]]
  /\ UNCHANGED <<roomDeletes, signup, access, reduction, faults, rooms, roomImages, nextRoomId, nextUrlId,
                 tasks, upload, deletes, patches, reruns, written>>

\* db.update(rooms).set({ measurements }).returning(): the column gets the
\* measurements built from the row read at the start; when the room is gone
\* no row comes back and the handler's catch answers 500
EditUpdate(e) ==
  LET req == edits[e]
      measurements ==
        IF req.kind = "categories"
          THEN CategoryMeasurements(req.existing, SelectedItems, UnselectedItems,
                                    req.estimatedCategories)
          ELSE LegacyMeasurements(req.existing, EditedItems, Null)
  IN
  /\ req.pc = "update"
  /\ rooms' = [rooms EXCEPT ![req.roomId] =
       IF @ = Null THEN Null ELSE [@ EXCEPT !.measurements = measurements]]
  /\ edits' = [edits EXCEPT ![e] =
       [@ EXCEPT !.pc = "responded",
                 !.status = IF rooms[req.roomId] = Null THEN 500 ELSE 200]]
  /\ UNCHANGED <<roomDeletes, signup, access, reduction, faults, roomImages, nextRoomId, nextUrlId,
                 tasks, upload, deletes, patches, reruns, written>>

EditStep ==
  \/ \E r \in RoomIds, kind \in EditKinds : EditBegin(r, kind)
  \/ \E e \in 1..Len(edits) : EditReadImages(e)
  \/ \E e \in 1..Len(edits) : EditUpdate(e)

NextEdit == AnalysisStep \/ UploadStep \/ EditStep

SpecEdit == Init /\ [][NextEdit]_vars

\* ------------------------------------------- authentication and job access
\* The users table of the scenario: a contractor, a customer, an admin and a
\* second contractor; `present` is the set of users whose row still exists.
UserIds == 1..4

RoleOf(u) ==
  CASE u = 1 -> "contractor" [] u = 2 -> "customer" [] u = 3 -> "admin"
    [] OTHER -> "contractor"

sBearer == <<"B","e","a","r","e","r"," ">>

\* the token generateToken issued to user u at registration or login
TokenOf(u) == <<"t", CodeUnits[u + 3]>>

\* verifyToken(token): the payload of a token this server signed that has not
\* expired, null otherwise (the signature is not modelled: the tokens signed
\* are those of TokenOf)
verifyToken(token) ==
  IF \E u \in UserIds : token = TokenOf(u)
    THEN [userId |-> CHOOSE u \in UserIds : token = TokenOf(u)]
    ELSE Null

\* String.prototype.startsWith
startsWith(s, prefix) == Len(s) >= Len(prefix) /\ SubSeq(s, 1, Len(prefix)) = prefix

\* String.prototype.substring(start), start counted from 0
substring(s, start) == SubSeq(s, start + 1, Len(s))

\* the Authorization headers of the requests: none, empty, other schemes and
\* spellings, an empty token, a token that does not verify, the tokens of the
\* users
AuthHeaders ==
  {Null, Str(<<>>), Str(<<"B","e","a","r","e","r">>),
   Str(<<"b","e","a","r","e","r"," ">> \o TokenOf(1)),
   Str(<<"B","a","s","i","c"," ">> \o TokenOf(1)),
   Str(sBearer), Str(sBearer \o <<"x">>)}
    \cup {Str(sBearer \o TokenOf(u)) : u \in UserIds}

\* variant: the user row is not looked up
requireAuthWithoutUserLookup(authHeader, present) ==
  IF ~Truthy(authHeader) \/ ~startsWith(authHeader.str, sBearer)
    THEN [status |-> 401, user |-> Null]
  ELSE LET payload == verifyToken(substring(authHeader.str, 7))
       IN IF payload = Null THEN [status |-> 401, user |-> Null]
          ELSE [status |-> 0, user |-> [id |-> payload.userId, role |-> RoleOf(payload.userId)]]

\* requireAuth: the response status, or 0 and the user put in the context
\* when next() is called
requireAuth(authHeader, present) ==
  IF ~Truthy(authHeader) \/ ~startsWith(authHeader.str, sBearer)
    THEN [status |-> 401, user |-> Null]
  ELSE LET payload == verifyToken(substring(authHeader.str, 7))
       IN IF payload = Null THEN [status |-> 401, user |-> Null]
          ELSE IF payload.userId \notin present THEN [status |-> 404, user |-> Null]
          ELSE [status |-> 0, user |-> [id |-> payload.userId, role |-> RoleOf(payload.userId)]]

\* The routes behind requireAuth. check: how the handler decides access to
\* the job; first: what the handler does with the body before that check
\* ("parse": reads the JSON body, "validate": also validates it); body: the
\* handler reads a body; writes: the handler changes the job, its rooms or
\* its images.
Route(name, check, first, body, writes) ==
  [name |-> name, check |-> check, first |-> first, body |-> body, writes |-> writes]

Routes ==
  {Route("GET /jobs/:id", "hasAccess", "none", FALSE, FALSE),
   Route("PATCH /jobs/:id/status", "hasAccess", "validate", TRUE, TRUE),
   Route("PATCH /jobs/:id", "hasAccess", "parse", TRUE, TRUE),
   Route("GET /jobs/:id/rooms/:roomId/images", "ownJob", "none", FALSE, FALSE),
   Route("GET /jobs/:id/rooms/estimated-items", "ownJob", "none", FALSE, FALSE),
   Route("PATCH /jobs/:jobId/rooms/:roomId/estimated-items", "ownJob", "none", TRUE, TRUE),
   Route("DELETE /jobs/:jobId/rooms/:roomId/images/:imageId", "hasAccess", "none", FALSE, TRUE),
   Route("DELETE /jobs/:jobId/rooms/:roomId", "hasAccess", "none", FALSE, TRUE),
   Route("GET /jobs/:id/details", "hasAccess", "none", FALSE, FALSE),
   Route("PATCH /jobs/:id/estimate", "hasAccess", "none", TRUE, TRUE),
   Route("PATCH /jobs/:id/details", "hasAccess", "none", TRUE, TRUE),
   Route("POST /jobs/:id/add-room", "contractorOwnJob", "none", TRUE, TRUE),
   Route("GET /protected", "none", "none", FALSE, FALSE),
   Route("POST /uploads", "none", "none", TRUE, FALSE),
   Route("POST /customers", "none", "none", TRUE, FALSE)}

\* the request bodies: well-formed and valid, well-formed but refused by the
\* handler's validation, not parseable
Bodies == {"valid", "invalid", "malformed"}

\* variant: the role alone gives access
hasAccessByRole(user, job) ==
  user.role = "admin" \/ user.role = "contractor" \/ user.role = "customer"

\* hasAccess / canUpdate of the job handlers
hasAccess(user, job) ==
  \/ user.role = "admin"
  \/ (user.role = "contractor" /\ job.contractorId = user.id)
  \/ (user.role = "customer" /\ job.customerId = Num(user.id))

\* the status with which the handler of `route` refuses the request before it
\* reads or changes anything of the job; 0 when it goes on
AccessStatus(route, user, job, body) ==
  IF route.first # "none" /\ body = "malformed" THEN 500
  ELSE IF route.first = "validate" /\ body = "invalid" THEN 400
  ELSE IF route.check = "hasAccess" THEN
         (IF job = Null THEN 404 ELSE IF ~hasAccess(user, job) THEN 403 ELSE 0)
  ELSE IF route.check = "ownJob" THEN
         (IF job = Null \/ job.contractorId # user.id THEN 404 ELSE 0)
  ELSE IF route.check = "contractorOwnJob" THEN
         (IF user.role # "contractor" THEN 403
          ELSE IF job = Null \/ job.contractorId # user.id THEN 404 ELSE 0)
  ELSE 0

\* the status of a request that passed the access check
ServedStatus(route, body) ==
  IF route.body /\ body = "malformed" THEN 500
  ELSE IF route.body /\ body = "invalid" THEN 400
  ELSE 200

\* the jobs a database with these users can hold: the contractor of a job is
\* a user with role contractor (jobs_contractor_id_users_id_fk), its customer
\* a customer or none
JobRows(present) ==
  {[contractorId |-> c, customerId |-> k, rev |-> 0] :
     c \in {u \in present : RoleOf(u) = "contractor"},
     k \in {Num(2), Null}}

\* at most one user row has been deleted; job 1 exists, job 2 does not
InitAccess ==
  /\ InitTables
  /\ reduction = NoReduction
  /\ signup = NoSignup
  /\ \E gone \in {{}} \cup {{u} : u \in UserIds} :
       \E row \in JobRows(UserIds \ gone) :
         access = [present |-> UserIds \ gone,
                   jobs |-> [j \in JobIds |-> IF j = 1 THEN row ELSE Null],
                   req |-> NoRequest, served |-> 0]

\* a request arrives
ReceiveRequest(header, route, jobId, body) ==
  /\ access.req.pc = "none"
  /\ access.served < MaxRequests
  /\ access' = [access EXCEPT
       !.served = @ + 1,
       !.req = [pc |-> "auth", header |-> header, route |-> route.name, jobId |-> jobId,
                body |-> body, user |-> Null, status |-> 0, ran |-> FALSE]]
  /\ UNCHANGED <<roomDeletes, edits, signup, reduction, rooms, roomImages, nextRoomId, nextUrlId, tasks, upload, deletes,
                 patches, reruns, faults, written>>

\* the requireAuth middleware answers or calls next()
Authenticate ==
  LET out == requireAuth(access.req.header, access.present) IN
  /\ access.req.pc = "auth"
  /\ access' = [access EXCEPT
       !.req = [@ EXCEPT !.pc = IF out.status = 0 THEN "handler" ELSE "done",
                         !.status = out.status,
                         !.user = out.user]]
  /\ UNCHANGED <<roomDeletes, edits, signup, reduction, rooms, roomImages, nextRoomId, nextUrlId, tasks, upload, deletes,
                 patches, reruns, faults, written>>

RouteNamed(name) == CHOOSE route \in Routes : route.name = name

\* the route handler runs
HandleRequest ==
  LET req == access.req
      route == RouteNamed(req.route)
      job == access.jobs[req.jobId]
      refused == AccessStatus(route, req.user, job, req.body)
      status == IF refused # 0 THEN refused ELSE ServedStatus(route, req.body)
  IN
  /\ req.pc = "handler"
  /\ access' = [access EXCEPT
       !.req = [@ EXCEPT !.pc = "done", !.status = status, !.ran = TRUE],
       !.jobs = IF status = 200 /\ route.writes /\ job # Null
                  THEN [@ EXCEPT ![req.jobId] = [@ EXCEPT !.rev = @ + 1]]
                  ELSE @]
  /\ UNCHANGED <<roomDeletes, edits, signup, reduction, rooms, roomImages, nextRoomId, nextUrlId, tasks, upload, deletes,
                 patches, reruns, faults, written>>

\* the response has been sent: the request and its context are gone
SendResponse ==
  /\ access.req.pc = "done"
  /\ access' = [access EXCEPT !.req = NoRequest]
  /\ UNCHANGED <<roomDeletes, edits, signup, reduction, rooms, roomImages, nextRoomId, nextUrlId, tasks, upload, deletes,
                 patches, reruns, faults, written>>

NextAccess ==
  \/ \E header \in AuthHeaders, route \in Routes, jobId \in JobIds, body \in Bodies :
       ReceiveRequest(header, route, jobId, body)
  \/ Authenticate
  \/ HandleRequest
  \/ SendResponse

SpecAccess == InitAccess /\ [][NextAccess]_vars

\* ------------------------------------------------------ POST /auth/register
\* the emails of the registration requests; the empty one fails the check of
\* the required fields
Emails == {"", "ann@example.com", "bob@example.com"}

\* POST /auth/register arrives: the body is read
RegisterBegin(email) ==
  /\ Len(signup.requests) < MaxSignups
  /\ signup' = [signup EXCEPT
       !.requests = Append(@, [email |-> email, pc |-> "check", status |-> 0])]
  /\ UNCHANGED <<roomDeletes, edits, access, reduction, rooms, roomImages, nextRoomId, nextUrlId, tasks, upload,
                 deletes, patches, reruns, faults, written>>

\* the required fields are checked and the user is looked up by email; when
\* none is found the password is hashed next
RegisterFindExisting(i) ==
  LET req == signup.requests[i]
      existingUser == \E n \in 1..Len(signup.users) : signup.users[n].email = req.email
      status == IF req.email = "" THEN 400 ELSE IF existingUser THEN 409 ELSE 0
  IN
  /\ req.pc = "check"
  /\ signup' = [signup EXCEPT
       !.requests[i] = [@ EXCEPT !.pc = IF status = 0 THEN "insert" ELSE "done",
                                 !.status = status]]
  /\ UNCHANGED <<roomDeletes, edits, access, reduction, rooms, roomImages, nextRoomId, nextUrlId, tasks, upload,
                 deletes, patches, reruns, faults, written>>

\* users_email_unique: the insert of a row with this email is refused
UniqueViolation(users, email) == \E n \in 1..Len(users) : users[n].email = email

\* db.insert(users): the row is stored and the request answered 201, or the
\* unique constraint makes the insert throw and the catch answers 500
RegisterInsert(i) ==
  LET req == signup.requests[i] IN
  /\ req.pc = "insert"
  /\ IF UniqueViolation(signup.users, req.email)
       THEN signup' = [signup EXCEPT
              !.requests[i] = [@ EXCEPT !.pc = "done", !.status = 500]]
       ELSE signup' = [signup EXCEPT
              !.users = Append(@, [id |-> Len(@) + 1, email |-> req.email]),
              !.requests[i] = [@ EXCEPT !.pc = "done", !.status = 201]]
  /\ UNCHANGED <<roomDeletes, edits, access, reduction, rooms, roomImages, nextRoomId, nextUrlId, tasks, upload,
                 deletes, patches, reruns, faults, written>>

\* the users table is empty or holds one user
InitSignup ==
  /\ InitTables
  /\ reduction = NoReduction
  /\ access = NoAccess
  /\ \E users \in {<<>>, <<[id |-> 1, email |-> "ann@example.com"]>>} :
       signup = [users |-> users, requests |-> <<>>]

NextSignup ==
  \/ \E email \in Emails : RegisterBegin(email)
  \/ \E i \in 1..Len(signup.requests) : RegisterFindExisting(i)
  \/ \E i \in 1..Len(signup.requests) : RegisterInsert(i)

SpecSignup == InitSignup /\ [][NextSignup]_vars

\* ------------------------------------------------------------------- claims
\* the sum of Get(f(x), key) over the elements x of the finite set S, where
\* f(x) is a count map
SumOverSet(S, key, f(_)) ==
  LET RECURSIVE Sum(_)
      Sum(T) == IF T = {} THEN 0
                ELSE LET x == CHOOSE y \in T : TRUE
                     IN Get(f(x), key) + Sum(T \ {x})
  IN Sum(S)

RECURSIVE SumOver(_, _, _)
\* the sum of the counts of `key` over the per-image entries whose URL is in keep
SumOver(s, key, keep) ==
  IF s = <<>> THEN 0
  ELSE (IF Head(s).url \in keep THEN Get(Head(s).summary.countsByType, key) ELSE 0)
       + SumOver(Tail(s), key, keep)

RecordCounts(img) == img.measurements.countsByType

\* the count of `key` in the aggregate stored for room r (0 without aggregate)
AggregateCount(r, key) ==
  IF rooms[r].measurements = Null THEN 0
  ELSE Get(rooms[r].measurements.aggregates.countsByType, key)

TypeKeys == {sWindow, sSiding, sFoundation, sObject}

\* no analysis run and no image deletion is in progress for room r
Quiescent(r) ==
  /\ \A k \in TaskIds : tasks[k].room = r => tasks[k].pc = "done"
  /\ \A d \in 1..Len(deletes) : deletes[d].roomId = r => deletes[d].pc = "responded"

\* an image deletion or a per-image measurement edit has been served
EditedOrDeleted ==
  \/ patches > 0
  \/ \E d \in 1..Len(deletes) : deletes[d].pc = "responded"

\* C1: after analysis runs, image deletions and per-image measurement edits,
\* whenever nothing is in progress for a room, the aggregate stored in
\* rooms.measurements has, for every type, the sum of that type's counts over
\* the room's stored per-image records.
C1_AggregateIsSumOfRecords ==
  \A r \in RoomIds :
    (rooms[r] # Null /\ Quiescent(r) /\ written[r] # <<>> /\ EditedOrDeleted) =>
      \A key \in TypeKeys :
        AggregateCount(r, key) = SumOverSet(RecordsOf(r), key, RecordCounts)

\* the URLs whose room_images row a DELETE image request has removed from room r
DeletedUrls(r) ==
  {deletes[d].imageUrl : d \in {x \in 1..Len(deletes) :
      deletes[x].roomId = r /\ deletes[x].pc \in {"remaining", "deleteRoom", "responded"}}}

\* C2: the aggregate a run persists contains no counts from images that have
\* been deleted from the room: for every type it is the sum over the images of
\* the room that have not been deleted.
C2_PersistedAggregateOverCurrentImages ==
  [][\A r \in RoomIds : \A k \in TaskIds :
       (tasks[k].room = r /\ tasks[k].pc = "final" /\ written'[r] # written[r]) =>
         \A key \in TypeKeys :
           Get(rooms'[r].measurements.aggregates.countsByType, key)
             = SumOver(tasks[k].perImage, key,
                       {tasks[k].urls[i] : i \in 1..Len(tasks[k].urls)} \ DeletedUrls(r))]_vars

\* two analysis payloads were computed from the same URLs and the same
\* detection results
SameInputs(m1, m2) ==
  /\ Len(m1.images) = Len(m2.images)
  /\ \A i \in 1..Len(m1.images) :
       /\ m1.images[i].url = m2.images[i].url
       /\ m1.images[i].raw = m2.images[i].raw

\* C3: two runs for the same room over the same URLs with the same detection
\* results store the same aggregate counts, areas and items: a later run
\* replaces the totals of an earlier one, it does not add to them.
C3_RerunReplacesTotals ==
  \A r \in RoomIds : \A i, j \in 1..Len(written[r]) :
    (i < j /\ SameInputs(written[r][i], written[r][j])) =>
      /\ written[r][j].aggregates.countsByType = written[r][i].aggregates.countsByType
      /\ written[r][j].aggregates.areaSqftByType = written[r][i].aggregates.areaSqftByType
      /\ written[r][j].aggregates.items = written[r][i].aggregates.items

C3_Witness ==
  \E r \in RoomIds :
    /\ Len(written[r]) >= 2
    /\ SameInputs(written[r][1], written[r][2])
    /\ Get(written[r][2].aggregates.countsByType, sWindow) > 0

\* C4: room_images holds at most one row per (room id, image URL).
C4_OneRecordPerRoomAndUrl ==
  \A a, b \in roomImages :
    (a.roomId = b.roomId /\ a.imageUrl = b.imageUrl) => a.id = b.id

IsErrorEntry(e) == e.raw = [error |-> TRUE]

RECURSIVE SumSucceeded(_, _, _)
\* the sum of the per-image values of `key` over the entries that carry a
\* detection result; field is "countsByType" or "areaSqftByType"
SumSucceeded(entries, key, field) ==
  IF entries = <<>> THEN 0
  ELSE (IF IsErrorEntry(Head(entries)) THEN 0
        ELSE Get(Head(entries).summary[field], key))
       + SumSucceeded(Tail(entries), key, field)

C6_ResponseDoesNotWaitForAnalysis ==
  /\ [](/\ upload.pc \in {"idle", "rooms", "responded"}
        /\ (upload.n > 0 /\ upload.done = upload.n) =>
             (upload.pc = "responded" /\ upload.status = 201)
        /\ upload.status = 500 => upload.done < upload.n
        /\ upload.pc = "responded" => upload.status \in {201, 500})
  /\ [][(upload.pc = "responded" /\ upload'.pc = "responded") => upload' = upload]_vars

C6_Witness ==
  /\ upload.pc = "responded"
  /\ upload.status = 201
  /\ \E k \in TaskIds : tasks[k].pc = "detect" /\ tasks[k].idx = 1

\* C7: a run never rejects: while it runs its promise is pending, and once it
\* has returned the promise is resolved, also after a failed room update.
C7_AnalysisNeverRejects ==
  \A k \in TaskIds :
    /\ tasks[k].outcome # "rejected"
    /\ tasks[k].pc = "done" <=> tasks[k].outcome = "resolved"

C7_Witness ==
  \E k \in TaskIds :
    /\ tasks[k].pc = "done"
    /\ tasks[k].logged
    /\ tasks[k].outcome = "resolved"

\* C8: every write of an analysis payload to a room is made by a run whose
\* loop has ended with every image of its batch settled, and it stores that
\* run's complete per-image list.
C8_AggregateAfterAllImagesSettled ==
  [][\A r \in RoomIds :
       written'[r] # written[r] =>
         \E k \in TaskIds :
           /\ tasks[k].room = r
           /\ tasks[k].pc = "final"
           /\ tasks'[k].pc = "done"
           /\ tasks[k].cur = Null
           /\ Len(tasks[k].perImage) = Len(tasks[k].urls)
           /\ rooms'[r].measurements.images = tasks[k].perImage]_vars

C8_Witness ==
  \E r \in RoomIds :
    /\ written[r] # <<>>
    /\ Len(written[r][1].images) >= 2

C10_AggregateReplacedOrKept ==
  [][\A k \in TaskIds :
       (tasks[k].pc = "final" /\ tasks'[k].pc = "done" /\ rooms[tasks[k].room] # Null) =>
         /\ \/ rooms'[tasks[k].room].measurements = rooms[tasks[k].room].measurements
            \/ rooms'[tasks[k].room].measurements = TaskMeasurements(tasks[k])
         /\ tasks'[k].logged =>
              rooms'[tasks[k].room].measurements = rooms[tasks[k].room].measurements]_vars

C10_Witness ==
  \E r \in RoomIds : \E k \in TaskIds :
    /\ k >= 2
    /\ tasks[k].room = r
    /\ tasks[k].pc = "done"
    /\ tasks[k].logged
    /\ Len(written[r]) = 1
    /\ rooms[r].measurements = written[r][1]
    /\ Get(rooms[r].measurements.aggregates.countsByType, sWindow) > 0

RECURSIVE SumImages(_, _, _)
\* the sum of the per-image values of `key` over the images of a payload;
\* field is "countsByType" or "areaSqftByType"
SumImages(images, key, field) ==
  IF images = <<>> THEN 0
  ELSE Get(Head(images).summary[field], key) + SumImages(Tail(images), key, field)

\* the types that have a count or an area in at least one image of a payload
TypesSeen(images) ==
  UNION {KeySet(images[i].summary.countsByType) \cup KeySet(images[i].summary.areaSqftByType) :
           i \in 1..Len(images)}

\* C11: every payload an analysis run has persisted holds, for every type, a
\* count equal to the sum of the per-image counts and an area equal to the sum
\* of the per-image areas, and has exactly one item, with that count and that
\* area, for each type seen in at least one image of the run.
C11_AggregateIsPureSum ==
  \A r \in RoomIds : \A n \in 1..Len(written[r]) :
    LET m == written[r][n]
        items == m.aggregates.items
    IN /\ \A key \in TypeKeys \cup TypesSeen(m.images) :
            /\ Get(m.aggregates.countsByType, key) = SumImages(m.images, key, "countsByType")
            /\ Get(m.aggregates.areaSqftByType, key)
                 = SumImages(m.images, key, "areaSqftByType")
       /\ {items[i].type : i \in 1..Len(items)} = TypesSeen(m.images)
       /\ \A i, j \in 1..Len(items) : items[i].type = items[j].type => i = j
       /\ \A i \in 1..Len(items) :
            /\ items[i].count = SumImages(m.images, items[i].type, "countsByType")
            /\ items[i].sqft = SumImages(m.images, items[i].type, "areaSqftByType")

\* the scenario of the specification: window 1 / 12 and window 2 / 20 give
\* window 3 / 32
C11_Witness ==
  \E r \in RoomIds : \E n \in 1..Len(written[r]) :
    LET m == written[r][n] IN
    /\ Len(m.images) = 2
    /\ Get(m.images[1].summary.countsByType, sWindow) = 1
    /\ Get(m.images[1].summary.areaSqftByType, sWindow) = 12
    /\ Get(m.images[2].summary.countsByType, sWindow) = 2
    /\ Get(m.images[2].summary.areaSqftByType, sWindow) = 20
    /\ \E i \in 1..Len(m.aggregates.items) :
         m.aggregates.items[i] = [type |-> sWindow, count |-> 3, sqft |-> 32]

\* the candidates the object loop has gone through so far
Processed == 1..(reduction.j - 1)

\* the confidence tag of a candidate, compared without regard to case as the
\* filter does; Null when the candidate has none
TagOf(obj) == IF obj.confidence = Null THEN Null ELSE Str(toLowerCase(obj.confidence.str))

\* the acceptance rule as claimed
AcceptedAsClaimed(typeKey, obj) ==
  \/ TagOf(obj) = Str(sHigh)
  \/ /\ typeKey \in {sSiding, sFoundation}
     /\ TagOf(obj) \in {Str(sMedium), Str(sLow)}

\* C12: the count of a type is the number of candidates of that canonical type
\* whose tag is "high", or "medium" or "low" when the type is siding or
\* foundation; a candidate with any other tag (missing or unrecognized) is
\* rejected and leaves both maps as they were, so a type with no accepted
\* candidate has neither a count nor an area.
C12_ConfidenceFilter ==
  reduction.pc # "idle" =>
    \A key \in {reduction.typeKeys[i] : i \in Processed} \cup KeySet(reduction.countsByType)
                    \cup KeySet(reduction.areaSqftByType) :
         LET accepted == {i \in Processed :
                            /\ reduction.typeKeys[i] = key
                            /\ AcceptedAsClaimed(key, reduction.objects[i])}
         IN /\ Get(reduction.countsByType, key) = Cardinality(accepted)
            /\ accepted = {} =>
                 /\ ~HasKey(reduction.countsByType, key)
                 /\ ~HasKey(reduction.areaSqftByType, key)

\* siding at "low" is counted, a window at "low" is not
C12_Witness ==
  /\ reduction.pc = "done"
  /\ reduction.roomType = "exterior"
  /\ reduction.objects = <<cWallLow, cWindowLow>>
  /\ Get(reduction.countsByType, sSiding) = 1
  /\ ~HasKey(reduction.countsByType, sWindow)
  /\ ~HasKey(reduction.areaSqftByType, sWindow)

\* C13: the scene type of the room selects the rules: for an exterior room a
\* type counts its candidates after the synonym folding, with "medium" and
\* "low" accepted for siding and foundation; for an interior room a type counts
\* the candidates of that normalized raw type whose tag is "high", without the
\* exterior synonym table.
C13_SceneTypeSelectsRules ==
  reduction.pc = "done" =>
    \A key \in {reduction.typeKeys[i] : i \in Processed}
                 \cup {RawTypeKey(reduction.objects[i]) : i \in Processed}
                 \cup KeySet(reduction.countsByType) :
      Get(reduction.countsByType, key) =
        IF reduction.roomType = "exterior"
          THEN Cardinality({i \in Processed :
                              /\ reduction.typeKeys[i] = key
                              /\ AcceptedAsClaimed(key, reduction.objects[i])})
          ELSE Cardinality({i \in Processed :
                              /\ RawTypeKey(reduction.objects[i]) = key
                              /\ TagOf(reduction.objects[i]) = Str(sHigh)})

\* a candidate that carries `label` as its type, or as its name only
Labelled(label, asType) ==
  IF asType THEN Obj(Str(label), Null, Null, Null, Null, Null)
  ELSE Obj(Null, Str(label), Null, Null, Null, Null)

\* C14: the canonical type computed for a candidate is a fixed point of the
\* canonicalization: given back as a raw type or as a raw name it canonicalizes
\* to itself.
C14_CanonicalizationIdempotent ==
  \A i \in 1..Len(reduction.typeKeys) : \A asType \in BOOLEAN :
    CanonicalType(Labelled(reduction.typeKeys[i], asType)) = reduction.typeKeys[i]

\* a label that both the normalization and the folding have changed
C14_Witness ==
  \E i \in 1..Len(reduction.typeKeys) :
    /\ reduction.objects[i] = cMasonryFoundation
    /\ reduction.typeKeys[i] = sFoundation

\* the synonym table of an exterior scene as claimed
ExteriorSynonym(label) ==
  CASE label \in {sWall, sCladding} -> sSiding
    [] label \in {sMasonryFoundation, sBrickFoundation} -> sFoundation
    [] label \in {sMasonry, sBrick} -> sSiding
    [] OTHER -> label

\* C15: in an exterior scene every candidate gets the canonical type the
\* synonym table gives for its normalized label: wall and cladding are siding,
\* masonry_foundation and brick_foundation are foundation, masonry and brick
\* are siding; brick is never foundation.
C15_ExteriorSynonymFolding ==
  reduction.roomType = "exterior" =>
    \A i \in 1..Len(reduction.typeKeys) :
      /\ reduction.typeKeys[i] = ExteriorSynonym(RawTypeKey(reduction.objects[i]))
      /\ RawTypeKey(reduction.objects[i]) = sBrick => reduction.typeKeys[i] # sFoundation

\* brick, and masonry named "foundation", are counted as siding; the explicit
\* foundation labels as foundation
C15_Witness ==
  /\ reduction.roomType = "exterior"
  /\ reduction.pc = "done"
  /\ \E i, j \in 1..Len(reduction.typeKeys) :
       /\ reduction.objects[i] = cBrickMedium
       /\ reduction.typeKeys[i] = sSiding
       /\ reduction.objects[j] = cBrickFoundation
       /\ reduction.typeKeys[j] = sFoundation
  /\ Get(reduction.countsByType, sSiding) = 1
  /\ Get(reduction.countsByType, sFoundation) = 1

RECURSIVE WordsOf(_, _)
\* the maximal whitespace-free pieces of s, in order; `word` is the piece
\* being read
WordsOf(s, word) ==
  IF s = <<>> THEN (IF word = <<>> THEN <<>> ELSE <<word>>)
  ELSE IF IsSpace(Head(s))
    THEN (IF word = <<>> THEN <<>> ELSE <<word>>) \o WordsOf(Tail(s), <<>>)
  ELSE WordsOf(Tail(s), Append(word, Head(s)))

RECURSIVE JoinWithUnderscore(_)
JoinWithUnderscore(words) ==
  IF words = <<>> THEN <<>>
  ELSE IF Len(words) = 1 THEN Head(words)
  ELSE Head(words) \o <<"_">> \o JoinWithUnderscore(Tail(words))

\* a label lower-cased, trimmed, each run of inner whitespace made one
\* underscore; empty for a missing label
NormalizedAsClaimed(label) ==
  IF label = Null THEN <<>>
  ELSE JoinWithUnderscore(WordsOf(toLowerCase(label.str), <<>>))

\* normalized raw type, else normalized raw name, else "object"
LabelAsClaimed(obj) ==
  IF NormalizedAsClaimed(obj.type) # <<>> THEN NormalizedAsClaimed(obj.type)
  ELSE IF NormalizedAsClaimed(obj.name) # <<>> THEN NormalizedAsClaimed(obj.name)
  ELSE sObject

SynonymLabels == {sWall, sCladding, sMasonryFoundation, sBrickFoundation, sMasonry, sBrick}

\* C16: the canonical type of a candidate is never empty, and when its label
\* is in no synonym rule it is the normalized raw type, or the normalized raw
\* name when the type is missing or normalizes to nothing, or "object" when
\* the name gives nothing either.
C16_CanonicalTypeFallbacks ==
  \A i \in 1..Len(reduction.typeKeys) :
    /\ reduction.typeKeys[i] # <<>>
    /\ LabelAsClaimed(reduction.objects[i]) \notin SynonymLabels =>
         reduction.typeKeys[i] = LabelAsClaimed(reduction.objects[i])

\* a blank type falls back to the name, a candidate without labels to "object"
C16_Witness ==
  \E i, j \in 1..Len(reduction.typeKeys) :
    /\ reduction.objects[i] = cBlankType
    /\ reduction.typeKeys[i] = <<"b","a","y","_","w","i","n","d","o","w">>
    /\ reduction.objects[j] = cNoLabel
    /\ reduction.typeKeys[j] = sObject

\* the area of a candidate as claimed: surface_area when numeric, else width
\* times height when both are numeric, else zero
AreaAsClaimed(obj) ==
  IF toNumber(obj.surface_area) # Null THEN toNumber(obj.surface_area).num
  ELSE IF toNumber(obj.estimated_width_feet) # Null /\ toNumber(obj.estimated_height_feet) # Null
    THEN toNumber(obj.estimated_width_feet).num * toNumber(obj.estimated_height_feet).num
  ELSE 0

\* the accepted candidates of canonical type `key` among the first n
AcceptedOfType(key, n) ==
  {i \in 1..n : /\ reduction.typeKeys[i] = key
                /\ AcceptedAsClaimed(key, reduction.objects[i])}

RECURSIVE SumAreaAsClaimed(_, _)
\* the sum of the claimed areas of the accepted candidates of type `key` among
\* the first n
SumAreaAsClaimed(key, n) ==
  IF n = 0 THEN 0
  ELSE (IF n \in AcceptedOfType(key, n) THEN AreaAsClaimed(reduction.objects[n]) ELSE 0)
       + SumAreaAsClaimed(key, n - 1)

\* C17: the area of a type is the sum, over its accepted candidates, of
\* surface_area when numeric, else width times height when both are numeric,
\* else zero; a candidate without any area still adds 1 to the count of its
\* type, and the type is an item of the aggregate, with sqft 0 when none of
\* its candidates has an area.
C17_AreaResolution ==
  \A key \in {reduction.typeKeys[i] : i \in Processed} :
    LET n == reduction.j - 1
        accepted == AcceptedOfType(key, n)
    IN /\ Get(reduction.areaSqftByType, key) = SumAreaAsClaimed(key, n)
       /\ Get(reduction.countsByType, key) = Cardinality(accepted)
       /\ (reduction.pc = "done" /\ accepted # {}) =>
            \E i \in 1..Len(reduction.items) :
              reduction.items[i] = [type |-> key, count |-> Cardinality(accepted),
                                    sqft |-> SumAreaAsClaimed(key, n)]

\* brick without any area is an item with sqft 0; a non-numeric surface_area
\* gives way to width times height
C17_Witness ==
  /\ reduction.pc = "done"
  /\ reduction.objects = <<cBrickMedium, cMasonryFoundation>>
  /\ reduction.items = <<[type |-> sSiding, count |-> 1, sqft |-> 0],
                         [type |-> sFoundation, count |-> 1, sqft |-> 12]>>
  /\ ~HasKey(reduction.areaSqftByType, sSiding)

\* the permutations of 1..n
PermutationsOf(n) == {p \in [1..n -> 1..n] : \A i, j \in 1..n : p[i] = p[j] => i = j}

\* two count maps with the same keys and the same value for every key
SameMap(a, b) == KeySet(a) = KeySet(b) /\ \A key \in KeySet(a) : Get(a, key) = Get(b, key)

\* C18: when the object loop has ended, the per-type count map and the
\* per-type area map are those the reduction gives for every permutation of
\* the candidate list.
C18_ReductionOrderIndependent ==
  (reduction.pc = "objects" /\ reduction.j > Len(reduction.objects)) =>
    \A p \in PermutationsOf(Len(reduction.objects)) :
      LET permuted == [i \in 1..Len(reduction.objects) |-> reduction.objects[p[i]]]
          maps == ReduceImage([objects |-> Arr(permuted)])
      IN /\ SameMap(maps.countsByType, reduction.countsByType)
         /\ SameMap(maps.areaSqftByType, reduction.areaSqftByType)

\* a window and a wall have been reduced: the maps list window first, those of
\* the reversed list siding first, with the same values
C18_Witness ==
  /\ reduction.pc = "objects" /\ reduction.j > Len(reduction.objects)
  /\ reduction.objects = <<cWindowHigh, cWallLow>>
  /\ Keys(reduction.countsByType) = <<sWindow, sSiding>>
  /\ Keys(ReduceImage([objects |-> Arr(<<cWallLow, cWindowHigh>>)]).countsByType)
       = <<sSiding, sWindow>>
  /\ Get(reduction.areaSqftByType, sWindow) = 12
  /\ Get(reduction.areaSqftByType, sSiding) = 6

\* the item list the run emits when the candidates arrive in the order p
ItemsOfPermutation(p) ==
  LET permuted == [i \in 1..Len(reduction.objects) |-> reduction.objects[p[i]]]
      maps == ReduceImage([objects |-> Arr(permuted)])
  IN BuildItems(AddAll(EmptyMap, maps.countsByType), AddAll(EmptyMap, maps.areaSqftByType))

\* C19: the item list of a finished run is the same sequence of
\* {type, count, sqft} items for every order in which the candidates could
\* have been processed.
C19_ItemOrderDeterministic ==
  reduction.pc = "done" =>
    \A p \in PermutationsOf(Len(reduction.objects)) : ItemsOfPermutation(p) = reduction.items

\* the candidate passes the confidence filter
PassesFilter(obj) == AcceptedAsClaimed(CanonicalType(obj), obj)

\* C20: every object stored in a per-image measurement record passed the
\* confidence filter, and every estimated item category reported for a room
\* is the type of a stored candidate that passed it.
C20_StoredObjectsAccepted ==
  /\ \A img \in roomImages :
       IsArr(img.measurements.objects) =>
         \A i \in 1..Len(img.measurements.objects.arr) :
           PassesFilter(img.measurements.objects.arr[i])
  /\ \A r \in RoomIds :
       rooms[r] # Null =>
         \A n \in 1..Len(EstimatedItemCategories(r)) :
           \E img \in RecordsOf(r) :
             \E i \in 1..Len(img.measurements.objects.arr) :
               LET obj == img.measurements.objects.arr[i]
               IN /\ obj.type = Str(EstimatedItemCategories(r)[n])
                  /\ PassesFilter(obj)

\* the token of an Authorization header of the form 'Bearer <token>', Null
\* when the header is missing or has another form
BearerToken(header) ==
  IF header = Null THEN Null
  ELSE IF Len(header.str) < 7 THEN Null
  ELSE IF \E i \in 1..7 : header.str[i] # sBearer[i] THEN Null
  ELSE Str([i \in 1..(Len(header.str) - 7) |-> header.str[i + 7]])

\* the users whose token the header carries (one or none)
BearerOf(header) ==
  {u \in UserIds : BearerToken(header) = Str(TokenOf(u))}

\* what the claim expects of the middleware: 401 without a verifying bearer
\* token, 404 when its user is gone, 0 when the handler is to run
ExpectedAuthStatus(header, present) ==
  IF BearerOf(header) = {} THEN 401
  ELSE IF BearerOf(header) \cap present = {} THEN 404
  ELSE 0

OwnsJob(u, job) ==
  /\ job # Null
  /\ \/ (RoleOf(u) = "contractor" /\ job.contractorId = u)
     \/ (RoleOf(u) = "customer" /\ job.customerId = Num(u))

\* the handler of a job route is about to run for a user who is neither an
\* admin nor the contractor or the customer of the job
StrangerAtHandler ==
  /\ access.req.pc = "handler"
  /\ RouteNamed(access.req.route).check # "none"
  /\ RoleOf(access.req.user.id) # "admin"
  /\ ~OwnsJob(access.req.user.id, access.jobs[access.req.jobId])

StatusForContractor(route, job, body) ==
  LET contractor == [id |-> job.contractorId, role |-> "contractor"]
      refused == AccessStatus(route, contractor, job, body)
  IN IF refused # 0 THEN refused ELSE ServedStatus(route, body)

\* C23: when the handler of a job, room or room-image endpoint has run for an
\* authenticated admin on an existing job, the request has been answered as
\* the same request of that job's own contractor is answered.
C23_AdminHasContractorAccess ==
  (/\ access.req.pc = "done"
   /\ access.req.ran
   /\ access.req.user.role = "admin"
   /\ access.jobs[access.req.jobId] # Null
   /\ RouteNamed(access.req.route).check # "none") =>
     access.req.status = StatusForContractor(RouteNamed(access.req.route),
                                             access.jobs[access.req.jobId], access.req.body)

\* no two user rows have the same email
EmailsUnique ==
  \A m, n \in 1..Len(signup.users) : signup.users[m].email = signup.users[n].email => m = n

\* C24: user emails are unique in every state, and a registration that is
\* answered while its email already belongs to a user is answered 409 and
\* creates no user, whatever other registrations are being served.
C24_DuplicateRegistrationAnswered409 ==
  /\ []EmailsUnique
  /\ [][\A i \in 1..Len(signup.requests) :
          (/\ signup.requests[i].pc # "done"
           /\ signup'.requests[i].pc = "done"
           /\ \E n \in 1..Len(signup.users) : signup.users[n].email = signup.requests[i].email)
          => /\ signup'.requests[i].status = 409
             /\ signup'.users = signup.users]_vars

\* C25: a step that removes a room removes a room whose imageUrls lists no
\* image any more; a room that still lists uploaded images stays in place.
C25_RoomWithImagesKept ==
  [][\A r \in RoomIds :
       (rooms[r] # Null /\ rooms'[r] = Null) => rooms[r].imageUrls = <<>>]_vars

\* the user's edit carried by a measurements value: the selected and unselected
\* categories of PATCH estimated-items and the items of the legacy PATCH details
\* (the items that carry a `selected` flag are the client's)
HasCategories(m) == m # Null /\ "selectedCategories" \in DOMAIN m
HasEditedItems(m) ==
  /\ m # Null
  /\ "aggregates" \in DOMAIN m
  /\ \E i \in 1..Len(m.aggregates.items) : "selected" \in DOMAIN m.aggregates.items[i]

\* C26: a user edit of a room's measurements that completed while the analysis
\* of the room was still running is still in rooms.measurements after the
\* analysis finishes: no step other than a PATCH removes the stored categories
\* or the stored edited items.
C26_EditSurvivesAnalysis ==
  [][\A r \in RoomIds :
       (edits' = edits /\ rooms[r] # Null /\ rooms'[r] # Null) =>
         /\ HasCategories(rooms[r].measurements) =>
              /\ HasCategories(rooms'[r].measurements)
              /\ rooms'[r].measurements.selectedCategories
                   = rooms[r].measurements.selectedCategories
              /\ rooms'[r].measurements.unselectedCategories
                   = rooms[r].measurements.unselectedCategories
         /\ HasEditedItems(rooms[r].measurements) =>
              /\ HasEditedItems(rooms'[r].measurements)
              /\ rooms'[r].measurements.aggregates.items
                   = rooms[r].measurements.aggregates.items]_vars

\* C27: when analysis runs for the same room overlap, every room update stores
\* the complete measurements of the one run that performs it, built from that
\* run's own per-image results and totals (each total is the sum over that
\* run's images), so the aggregate stored last is the aggregate of the run
\* whose update happened last, never a mixture of two runs.
C27_OverlappingRunsNoMixture ==
  [][\A r \in RoomIds :
       (rooms[r] # Null /\ rooms'[r] # Null
        /\ rooms'[r].measurements # rooms[r].measurements) =>
         \E k \in TaskIds :
           LET t == tasks[k]
               m == rooms'[r].measurements
           IN /\ t.room = r
              /\ t.pc = "final"
              /\ tasks'[k].pc = "done"
              /\ m = BuildMeasurements(t.perImage, t.totalCounts, t.totalArea,
                                       t.roomDimensions, t.roomType)
              /\ m.images = t.perImage
              /\ \A key \in TypeKeys \cup TypesSeen(t.perImage) :
                   /\ Get(m.aggregates.countsByType, key)
                        = SumImages(t.perImage, key, "countsByType")
                   /\ Get(m.aggregates.areaSqftByType, key)
                        = SumImages(t.perImage, key, "areaSqftByType")]_vars

\* two runs of one room have overlapped and both have stored their
\* measurements, with different totals; the room holds those of the second
\* update
C27_Witness ==
  \E r \in RoomIds :
    /\ rooms[r] # Null
    /\ reruns >= 1
    /\ Len(written[r]) = 2
    /\ written[r][1].aggregates # written[r][2].aggregates
    /\ written[r][1].aggregates.countsByType # EmptyMap
    /\ rooms[r].measurements = written[r][2]
    /\ \A k \in TaskIds : tasks[k].room = r => tasks[k].pc = "done"

\* C28: every room_images record references an existing room in every
\* reachable state, whatever the interleaving of room deletion, image deletion
\* and the inserts of a running analysis.
C28_NoOrphanRoomImage ==
  \A img \in roomImages : rooms[img.roomId] # Null

\* a room deletion has removed a room while a run of the analysis for it was
\* about to insert a record, the insert has been refused, and another room
\* deletion has been refused because of a record inserted after its
\* delete of the room's records
C28_Witness ==
  /\ \E q \in 1..Len(roomDeletes), k \in TaskIds :
       /\ roomDeletes[q].status = 200
       /\ rooms[roomDeletes[q].roomId] = Null
       /\ tasks[k].room = roomDeletes[q].roomId
       /\ tasks[k].pc = "update"
  /\ \E q \in 1..Len(roomDeletes) : roomDeletes[q].status = 500

\* the images of a payload that were analyzed successfully and gave a numeric
\* value for `field` of room_dimensions
GaveDimension(images, field) ==
  {i \in 1..Len(images) :
     /\ ~IsErrorEntry(images[i])
     /\ images[i].raw.room_dimensions # Null
     /\ toNumber(images[i].raw.room_dimensions[field]) # Null}

\* the value of `field` the merge over the successful images gives: that of the
\* last image with a numeric value, else null
DimensionAsClaimed(images, field) ==
  LET gave == GaveDimension(images, field)
  IN IF gave = {} THEN Null
     ELSE toNumber(images[CHOOSE i \in gave : \A j \in gave : j <= i].raw.room_dimensions[field])

\* C29: in every aggregate the analysis stores, each of estimated_width,
\* estimated_height and estimated_length is the numeric value given by the last
\* successfully analyzed image that supplied one, null when none did, and a
\* failed image never changes it.
C29_DimensionsMergedOverSuccessfulImages ==
  \A r \in RoomIds : \A n \in 1..Len(written[r]) :
    LET m == written[r][n] IN
    \A field \in {"estimated_width", "estimated_height", "estimated_length"} :
      m.aggregates.roomDimensions[field] = DimensionAsClaimed(m.images, field)

RECURSIVE SumItems(_, _, _)
\* the sum of `field` ("count" or "sqft") over the items of type `type`
SumItems(items, type, field) ==
  IF items = <<>> THEN 0
  ELSE (IF Head(items).type = type THEN Head(items)[field] ELSE 0)
         + SumItems(Tail(items), type, field)

\* the maps of an aggregates object agree with its item list
MapsAgreeWithItems(aggregates) ==
  \A type \in KeySet(aggregates.countsByType) \cup KeySet(aggregates.areaSqftByType)
                \cup {aggregates.items[i].type : i \in 1..Len(aggregates.items)} :
    /\ Get(aggregates.countsByType, type) = SumItems(aggregates.items, type, "count")
    /\ Get(aggregates.areaSqftByType, type) = SumItems(aggregates.items, type, "sqft")

\* C30: whenever rooms.measurements.aggregates is written, by the background
\* analysis or by the legacy PATCH /jobs/:id/details, for every type its
\* countsByType entry is the sum of count and its areaSqftByType entry the sum
\* of sqft over the items of that type.
C30_AggregateMapsAgreeWithItems ==
  \A r \in RoomIds :
    (rooms[r] # Null /\ rooms[r].measurements # Null
     /\ "aggregates" \in DOMAIN rooms[r].measurements) =>
      MapsAgreeWithItems(rooms[r].measurements.aggregates)

\* a room whose aggregates the analysis has written, with a counted type, and
\* then the legacy PATCH, with two items of one type
C30_Witness ==
  \E r \in RoomIds :
    /\ rooms[r] # Null
    /\ written[r] # <<>>
    /\ written[r][1].aggregates.items # <<>>
    /\ HasEditedItems(rooms[r].measurements)
    /\ \E i, j \in 1..Len(rooms[r].measurements.aggregates.items) :
         /\ i # j
         /\ rooms[r].measurements.aggregates.items[i].type
              = rooms[r].measurements.aggregates.items[j].type
    /\ Get(rooms[r].measurements.aggregates.countsByType, sWindow) = 4
    /\ Get(rooms[r].measurements.aggregates.areaSqftByType, sWindow) = 35

====
